---- MODULE Spec2Model ----
(***************************************************************************)
(* The SCP ballot protocol of stellar-core (src/scp/BallotProtocol.cpp),   *)
(* modelled as a state machine.  Every method of BallotProtocol is an      *)
(* operator from a node's state record to its next state record; the      *)
(* top-level entry points (processEnvelope, bumpState, abandonBallot,     *)
(* ballotProtocolTimerExpired) are the actions.                           *)
(***************************************************************************)
EXTENDS Integers, Sequences, FiniteSets, TLC

(***************************************************************************)
(* Bounds of the model.                                                    *)
(***************************************************************************)
\* highest ballot counter a local bump (bumpState, abandonBallot, the
\* ballot timer) is let reach
MaxCounter == 2

(***************************************************************************)
(* Program constants.                                                      *)
(***************************************************************************)
\* stands for 2^32-1; counters are only compared and incremented (Inc32)
UINT32_MAX == 2147483647
MAX_ADVANCE_SLOT_RECURSION == 50

SCP_ST_PREPARE == 0
SCP_ST_CONFIRM == 1
SCP_ST_EXTERNALIZE == 2
\* no statement recorded for a node (absent key of mLatestEnvelopes)
NoType == 0 - 1

SCP_PHASE_PREPARE == 0
SCP_PHASE_CONFIRM == 1
SCP_PHASE_EXTERNALIZE == 2

kInvalidValue == 0
kMaybeValidValue == 1
kFullyValidatedValue == 2

\* outcomes of processEnvelope
INVALID == "INVALID"
VALID == "VALID"

\* uint32 increment
Inc32(n) == IF n = UINT32_MAX THEN 0 ELSE n + 1

(***************************************************************************)
(* Nodes, values, quorum sets.                                             *)
(***************************************************************************)
LocalNodeID == 0
Nodes == {0, 1, 2}
\* values; 0 is the empty value
Values == {1, 2}
\* a value the validator rejects
BadValue == 3

\* flat quorum sets: threshold of validators
QThreshold == 2
QSet(validators) == [threshold |-> QThreshold, validators |-> validators]

(***************************************************************************)
(* Ballots.  An optional ballot (unique_ptr) is unset when set = FALSE.    *)
(***************************************************************************)
SCPBallot(n, v) == [set |-> TRUE, counter |-> n, value |-> v]
NullBallot == [set |-> FALSE, counter |-> 0, value |-> 0]
\* SCPBallot(): counter 0, empty value
DefaultBallot == SCPBallot(0, 0)

compareBallots(b1, b2) ==
    IF b1.counter < b2.counter THEN 0 - 1
    ELSE IF b2.counter < b1.counter THEN 1
    ELSE IF b1.value < b2.value THEN 0 - 1
    ELSE IF b2.value < b1.value THEN 1
    ELSE 0

\* the unique_ptr overload: an unset ballot is below every set one
compareBallotsPtr(b1, b2) ==
    IF b1.set /\ b2.set THEN compareBallots(b1, b2)
    ELSE IF b1.set /\ ~b2.set THEN 1
    ELSE IF ~b1.set /\ b2.set THEN 0 - 1
    ELSE 0

\* mutant: the values of the two ballots are not compared
areBallotsCompatibleAlways(b1, b2) == TRUE

areBallotsCompatible(b1, b2) == b1.value = b2.value

areBallotsLessAndIncompatible(b1, b2) ==
    compareBallots(b1, b2) <= 0 /\ ~areBallotsCompatible(b1, b2)

areBallotsLessAndCompatible(b1, b2) ==
    compareBallots(b1, b2) <= 0 /\ areBallotsCompatible(b1, b2)

\* the greatest ballot of a non-empty set (std::set<SCPBallot>::rbegin)
MaxBallot(S) == CHOOSE x \in S : \A y \in S : compareBallots(y, x) <= 0

RECURSIVE SortDesc(_)
\* a std::set<SCPBallot> read with a reverse iterator
SortDesc(S) ==
    IF S = {} THEN << >>
    ELSE LET m == MaxBallot(S) IN << m >> \o SortDesc(S \ {m})

MaxNat(S) == CHOOSE x \in S : \A y \in S : y <= x

RECURSIVE SortNatDesc(_)
\* a std::set<uint32> read with a reverse iterator
SortNatDesc(S) ==
    IF S = {} THEN << >>
    ELSE LET m == MaxNat(S) IN << m >> \o SortNatDesc(S \ {m})

RECURSIVE SortNatAsc(_)
SortNatAsc(S) ==
    IF S = {} THEN << >>
    ELSE LET m == CHOOSE x \in S : \A y \in S : x <= y
         IN << m >> \o SortNatAsc(S \ {m})

(***************************************************************************)
(* Statements.  One record shape for the three variants of the pledges    *)
(* union; fields a variant lacks are 0 / unset.  qh = 1 when the          *)
(* statement's quorum set hash resolves to QuorumSet, 0 when it does not. *)
(***************************************************************************)
Prepare(n, b, p, pp, nC, nH) ==
    [node |-> n, type |-> SCP_ST_PREPARE, ballot |-> b, prepared |-> p,
     preparedPrime |-> pp, nC |-> nC, nH |-> nH, nPrepared |-> 0, qh |-> 1]

\* nC holds nCommit
Confirm(n, b, nP, nC, nH) ==
    [node |-> n, type |-> SCP_ST_CONFIRM, ballot |-> b,
     prepared |-> NullBallot, preparedPrime |-> NullBallot,
     nC |-> nC, nH |-> nH, nPrepared |-> nP, qh |-> 1]

\* ballot holds commit
Externalize(n, c, nH) ==
    [node |-> n, type |-> SCP_ST_EXTERNALIZE, ballot |-> c,
     prepared |-> NullBallot, preparedPrime |-> NullBallot,
     nC |-> 0, nH |-> nH, nPrepared |-> 0, qh |-> 1]

NoStatement ==
    [node |-> 0 - 1, type |-> NoType, ballot |-> NullBallot,
     prepared |-> NullBallot, preparedPrime |-> NullBallot,
     nC |-> 0, nH |-> 0, nPrepared |-> 0, qh |-> 0]

\* mutant: the last field of each comparison is compared with <=, so that
\* a statement equal to the recorded one counts as newer
isNewerStatementOrEqual(oldst, st) ==
    IF oldst.type # st.type THEN oldst.type < st.type
    ELSE IF st.type = SCP_ST_EXTERNALIZE THEN FALSE
    ELSE IF st.type = SCP_ST_CONFIRM THEN
        LET compBallot == compareBallots(oldst.ballot, st.ballot) IN
        IF compBallot < 0 THEN TRUE
        ELSE IF compBallot = 0 THEN
            IF oldst.nPrepared = st.nPrepared THEN oldst.nH <= st.nH
            ELSE oldst.nPrepared < st.nPrepared
        ELSE FALSE
    ELSE
        LET c1 == compareBallots(oldst.ballot, st.ballot)
            c2 == compareBallotsPtr(oldst.prepared, st.prepared)
            c3 == compareBallotsPtr(oldst.preparedPrime, st.preparedPrime)
        IN
        IF c1 < 0 THEN TRUE
        ELSE IF c1 = 0 THEN
            IF c2 < 0 THEN TRUE
            ELSE IF c2 = 0 THEN
                IF c3 < 0 THEN TRUE
                ELSE IF c3 = 0 THEN oldst.nH <= st.nH
                ELSE FALSE
            ELSE FALSE
        ELSE FALSE

isNewerStatement(oldst, st) ==
    IF oldst.type # st.type THEN oldst.type < st.type
    ELSE IF st.type = SCP_ST_EXTERNALIZE THEN FALSE
    ELSE IF st.type = SCP_ST_CONFIRM THEN
        LET compBallot == compareBallots(oldst.ballot, st.ballot) IN
        IF compBallot < 0 THEN TRUE
        ELSE IF compBallot = 0 THEN
            IF oldst.nPrepared = st.nPrepared THEN oldst.nH < st.nH
            ELSE oldst.nPrepared < st.nPrepared
        ELSE FALSE
    ELSE
        LET c1 == compareBallots(oldst.ballot, st.ballot)
            c2 == compareBallotsPtr(oldst.prepared, st.prepared)
            c3 == compareBallotsPtr(oldst.preparedPrime, st.preparedPrime)
        IN
        IF c1 < 0 THEN TRUE
        ELSE IF c1 = 0 THEN
            IF c2 < 0 THEN TRUE
            ELSE IF c2 = 0 THEN
                IF c3 < 0 THEN TRUE
                ELSE IF c3 = 0 THEN oldst.nH < st.nH
                ELSE FALSE
            ELSE FALSE
        ELSE FALSE

\* the overload that looks the sender up in mLatestEnvelopes
isNewerStatementFor(s, nodeID, st) ==
    IF s.M[nodeID].type = NoType THEN TRUE
    ELSE isNewerStatement(s.M[nodeID], st)

\* mutant: a statement whose quorum set does not resolve is let through
isStatementSaneUnresolved(st, self) ==
    IF st.type = SCP_ST_PREPARE THEN
        /\ (self \/ st.ballot.counter > 0)
        /\ ((~st.preparedPrime.set \/ ~st.prepared.set)
            \/ areBallotsLessAndIncompatible(st.preparedPrime, st.prepared))
        /\ (st.nH = 0 \/ (st.prepared.set /\ st.nH <= st.prepared.counter))
        /\ (st.nC = 0 \/ (st.nH # 0 /\ st.ballot.counter >= st.nH
                          /\ st.nH >= st.nC))
    ELSE IF st.type = SCP_ST_CONFIRM THEN
        /\ st.ballot.counter > 0
        /\ st.nH <= st.ballot.counter
        /\ st.nC <= st.nH
    ELSE
        /\ st.ballot.counter > 0
        /\ st.nH >= st.ballot.counter

\* mutant: the node's own PREPARE must have a ballot counter above 0 too
isStatementSaneOwnBallot(st, self) ==
    IF st.qh # 1 THEN FALSE
    ELSE IF st.type = SCP_ST_PREPARE THEN
        /\ st.ballot.counter > 0
        /\ ((~st.preparedPrime.set \/ ~st.prepared.set)
            \/ areBallotsLessAndIncompatible(st.preparedPrime, st.prepared))
        /\ (st.nH = 0 \/ (st.prepared.set /\ st.nH <= st.prepared.counter))
        /\ (st.nC = 0 \/ (st.nH # 0 /\ st.ballot.counter >= st.nH
                          /\ st.nH >= st.nC))
    ELSE IF st.type = SCP_ST_CONFIRM THEN
        /\ st.ballot.counter > 0
        /\ st.nH <= st.ballot.counter
        /\ st.nC <= st.nH
    ELSE
        /\ st.ballot.counter > 0
        /\ st.nH >= st.ballot.counter

isStatementSane(st, self) ==
    IF st.qh # 1 THEN FALSE
    ELSE IF st.type = SCP_ST_PREPARE THEN
        /\ (self \/ st.ballot.counter > 0)
        /\ ((~st.preparedPrime.set \/ ~st.prepared.set)
            \/ areBallotsLessAndIncompatible(st.preparedPrime, st.prepared))
        /\ (st.nH = 0 \/ (st.prepared.set /\ st.nH <= st.prepared.counter))
        /\ (st.nC = 0 \/ (st.nH # 0 /\ st.ballot.counter >= st.nH
                          /\ st.nH >= st.nC))
    ELSE IF st.type = SCP_ST_CONFIRM THEN
        /\ st.ballot.counter > 0
        /\ st.nH <= st.ballot.counter
        /\ st.nC <= st.nH
    ELSE
        /\ st.ballot.counter > 0
        /\ st.nH >= st.ballot.counter

getWorkingBallot(st) ==
    IF st.type = SCP_ST_PREPARE THEN st.ballot
    ELSE IF st.type = SCP_ST_CONFIRM THEN SCPBallot(st.nC, st.ballot.value)
    ELSE st.ballot

getStatementValues(st) ==
    IF st.type = SCP_ST_PREPARE THEN
        (IF st.ballot.counter # 0 THEN {st.ballot.value} ELSE {})
        \cup (IF st.prepared.set THEN {st.prepared.value} ELSE {})
        \cup (IF st.preparedPrime.set THEN {st.preparedPrime.value} ELSE {})
    ELSE {st.ballot.value}

hasPreparedBallot(ballot, st) ==
    IF st.type = SCP_ST_PREPARE THEN
        \/ (st.prepared.set /\ areBallotsLessAndCompatible(ballot, st.prepared))
        \/ (st.preparedPrime.set
            /\ areBallotsLessAndCompatible(ballot, st.preparedPrime))
    ELSE IF st.type = SCP_ST_CONFIRM THEN
        areBallotsLessAndCompatible(ballot,
                                    SCPBallot(st.nPrepared, st.ballot.value))
    ELSE areBallotsCompatible(ballot, st.ballot)

\* check = <<first, second>>
commitPredicate(ballot, check, st) ==
    IF st.type = SCP_ST_PREPARE THEN FALSE
    ELSE IF st.type = SCP_ST_CONFIRM THEN
        /\ areBallotsCompatible(ballot, st.ballot)
        /\ st.nC <= check[1] /\ check[2] <= st.nH
    ELSE
        /\ areBallotsCompatible(ballot, st.ballot)
        /\ st.ballot.counter <= check[1]

\* mutant: the counter of the statement's working ballot
statementWorkingBallotCounter(st) == getWorkingBallot(st).counter

statementBallotCounter(st) ==
    IF st.type = SCP_ST_PREPARE THEN st.ballot.counter
    ELSE IF st.type = SCP_ST_CONFIRM THEN st.ballot.counter
    ELSE UINT32_MAX

(***************************************************************************)
(* The state of one node's ballot protocol (the fields of BallotProtocol  *)
(* and what it reads on its Slot and drives on its SCPDriver).            *)
(*   phase, b, p, pp, h, c   mPhase, mCurrentBallot, mPrepared,            *)
(*                           mPreparedPrime, mHighBallot, mCommit          *)
(*   vo                      mValueOverride (0 = none)                     *)
(*   M                       mLatestEnvelopes                              *)
(*   heard, level, timerExp  mHeardFromQuorum, mCurrentMessageLevel,       *)
(*                           mTimerExpCount                                *)
(*   lastEnv, lastEmit       mLastEnvelope, mLastEnvelopeEmit              *)
(*   fv, cc                  the slot's fully-validated flag and latest    *)
(*                           composite candidate (0 = none)                *)
(*   vl                      the driver's validateValue, per value         *)
(*   qs                      the quorum set of the local node, which is    *)
(*                           also what every resolvable hash resolves to   *)
(*   timer, timerN           the ballot timer is armed; the counter its    *)
(*                           timeout was computed from                     *)
(*   out                     envelopes handed to emitEnvelope by the       *)
(*                           current top-level call                        *)
(*   ext                     number of valueExternalized calls             *)
(*   err                     0, or the exception that left the call:       *)
(*                           1 = maximum number of transitions,            *)
(*                           2 = moved to a bad state                      *)
(*   af                      the functions in which a dbgAssert condition  *)
(*                           was false (the call continues as in a build   *)
(*                           without assertions)                           *)
(*   hist                    the values mPhase has held, oldest first      *)
(*   adv                     number of advanceSlot calls made by the       *)
(*                           current top-level call                        *)
(*   arms                    number of startBallotProtocolTimer calls made *)
(*                           by the current top-level call                 *)
(*   res, ret                the bool a method returned / the              *)
(*                           EnvelopeState processEnvelope returned        *)
(***************************************************************************)
BallotProtocol(id, vl, qs) ==
    [id |-> id, qs |-> qs, phase |-> SCP_PHASE_PREPARE,
     b |-> NullBallot, p |-> NullBallot, pp |-> NullBallot,
     h |-> NullBallot, c |-> NullBallot, vo |-> 0,
     M |-> [n \in Nodes |-> NoStatement],
     heard |-> FALSE, level |-> 0, timerExp |-> 0,
     lastEnv |-> NoStatement, lastEmit |-> NoStatement,
     fv |-> TRUE, cc |-> 0, vl |-> vl,
     timer |-> FALSE, timerN |-> 0,
     out |-> << >>, ext |-> 0, err |-> 0, af |-> {},
     hist |-> << SCP_PHASE_PREPARE >>, adv |-> 0, arms |-> 0,
     res |-> FALSE, ret |-> "none"]

(***************************************************************************)
(* Federated voting: LocalNode::isQuorum / isVBlocking and                 *)
(* Slot::federatedAccept / federatedRatify over the latest envelopes.      *)
(***************************************************************************)
\* the senders of the latest envelopes whose quorum set resolves; the
\* tests below receive those of them whose statement passes the filter
Senders(s) == {n \in Nodes : s.M[n].type # NoType /\ s.M[n].qh = 1}

isQuorumSlice(qSet, S) ==
    Cardinality(S \cap qSet.validators) >= qSet.threshold

isVBlockingSet(qSet, S) ==
    /\ qSet.threshold # 0
    /\ Cardinality(S \cap qSet.validators)
         >= Cardinality(qSet.validators) - qSet.threshold + 1

isQuorum(s, S) ==
    /\ s.id \in S
    /\ \A n \in S : isQuorumSlice(s.qs, S)

isVBlocking(s, S) == isVBlockingSet(s.qs, S)

\* voted: the senders whose statement votes for the statement
federatedRatify(s, voted) == isQuorum(s, voted)

\* accepted: the senders whose statement accepts the statement
federatedAccept(s, voted, accepted) ==
    isVBlocking(s, accepted) \/ federatedRatify(s, voted)

(***************************************************************************)
(* Invariants checked by the code, timers, broadcasting.                   *)
(***************************************************************************)
\* an assignment to mPhase
setPhase(s, phase) ==
    [s EXCEPT !.phase = phase,
              !.hist = IF phase = s.phase THEN @ ELSE Append(@, phase)]

\* dbgAssert(cond) inside function site
dbgAssert(s, cond, site) ==
    IF cond THEN s ELSE [s EXCEPT !.af = @ \cup {site}]

\* the dbgAsserts of checkInvariants, by the variable they are about; a
\* null mHighBallot under a set mCommit counts as a failed assertion
PhaseInvariant(s) ==
    s.phase # SCP_PHASE_PREPARE => s.b.set /\ s.p.set /\ s.c.set /\ s.h.set

CurrentInvariant(s) == s.b.set => s.b.counter # 0

PreparedInvariant(s) ==
    s.p.set /\ s.pp.set => areBallotsLessAndIncompatible(s.pp, s.p)

HighInvariant(s) ==
    s.h.set => s.b.set /\ areBallotsLessAndCompatible(s.h, s.b)

CommitInvariant(s) ==
    s.c.set => s.b.set /\ s.h.set /\ areBallotsLessAndCompatible(s.c, s.h)

CommitHighInvariant(s) ==
    s.c.set => areBallotsLessAndCompatible(s.h, s.b)

checkInvariants(s) ==
    LET s1 == dbgAssert(s, PhaseInvariant(s), "checkInvariants: phase")
        s2 == dbgAssert(s1, CurrentInvariant(s), "checkInvariants: current")
        s3 == dbgAssert(s2, PreparedInvariant(s), "checkInvariants: prepared")
        s4 == dbgAssert(s3, HighInvariant(s), "checkInvariants: high")
        s5 == dbgAssert(s4, CommitInvariant(s), "checkInvariants: commit")
    IN  dbgAssert(s5, CommitHighInvariant(s), "checkInvariants: commit high")

startBallotProtocolTimer(s) ==
    [s EXCEPT !.timer = TRUE, !.timerN = s.b.counter, !.arms = @ + 1]

stopBallotProtocolTimer(s) == [s EXCEPT !.timer = FALSE, !.timerN = 0]

\* mutant: the latest envelope is sent whether or not the slot is fully
\* validated
sendLatestEnvelopeUnvalidated(s) ==
    IF s.level = 0 /\ s.lastEnv.type # NoType
       /\ (s.lastEmit.type = NoType \/ s.lastEnv # s.lastEmit)
    THEN [s EXCEPT !.lastEmit = s.lastEnv, !.out = Append(@, s.lastEnv)]
    ELSE s

\* mutant: the latest envelope is sent at any recursion depth
sendLatestEnvelopeAnyLevel(s) ==
    IF s.lastEnv.type # NoType /\ s.fv
       /\ (s.lastEmit.type = NoType \/ s.lastEnv # s.lastEmit)
    THEN [s EXCEPT !.lastEmit = s.lastEnv, !.out = Append(@, s.lastEnv)]
    ELSE s

sendLatestEnvelope(s) ==
    IF s.level = 0 /\ s.lastEnv.type # NoType /\ s.fv
       /\ (s.lastEmit.type = NoType \/ s.lastEnv # s.lastEmit)
    THEN [s EXCEPT !.lastEmit = s.lastEnv, !.out = Append(@, s.lastEnv)]
    ELSE s

\* mutant: a quorum heard from in phase EXTERNALIZE leaves the timer alone
checkHeardFromQuorumKeepsTimer(s) ==
    IF s.err # 0 \/ ~s.b.set THEN s
    ELSE IF isQuorum(s, {n \in Senders(s) :
                 IF s.M[n].type = SCP_ST_PREPARE
                 THEN s.b.counter <= s.M[n].ballot.counter
                 ELSE TRUE})
    THEN IF ~s.heard /\ s.phase # SCP_PHASE_EXTERNALIZE
         THEN startBallotProtocolTimer([s EXCEPT !.heard = TRUE])
         ELSE [s EXCEPT !.heard = TRUE]
    ELSE stopBallotProtocolTimer([s EXCEPT !.heard = FALSE])

\* mutant: the timer is armed again each time the quorum is heard from
checkHeardFromQuorumRearms(s) ==
    IF s.err # 0 \/ ~s.b.set THEN s
    ELSE IF isQuorum(s, {n \in Senders(s) :
                 IF s.M[n].type = SCP_ST_PREPARE
                 THEN s.b.counter <= s.M[n].ballot.counter
                 ELSE TRUE})
    THEN IF s.phase = SCP_PHASE_EXTERNALIZE
         THEN stopBallotProtocolTimer([s EXCEPT !.heard = TRUE])
         ELSE startBallotProtocolTimer([s EXCEPT !.heard = TRUE])
    ELSE stopBallotProtocolTimer([s EXCEPT !.heard = FALSE])

checkHeardFromQuorum(s) ==
    IF s.err # 0 \/ ~s.b.set THEN s
    ELSE IF isQuorum(s, {n \in Senders(s) :
                 IF s.M[n].type = SCP_ST_PREPARE
                 THEN s.b.counter <= s.M[n].ballot.counter
                 ELSE TRUE})
    THEN LET s1 == [s EXCEPT !.heard = TRUE]
             s2 == IF ~s.heard /\ s.phase # SCP_PHASE_EXTERNALIZE
                   THEN startBallotProtocolTimer(s1) ELSE s1
         IN  IF s.phase = SCP_PHASE_EXTERNALIZE
             THEN stopBallotProtocolTimer(s2) ELSE s2
    ELSE stopBallotProtocolTimer([s EXCEPT !.heard = FALSE])

validateValues(s, st) ==
    LET values == getStatementValues(st)
        levels == {s.vl[v] : v \in values}
    IN  IF values = {} THEN kInvalidValue
        ELSE CHOOSE l \in levels : \A m \in levels : l <= m

createStatement(s, type) ==
    IF type = SCP_ST_PREPARE THEN
        Prepare(s.id, IF s.b.set THEN s.b ELSE DefaultBallot, s.p, s.pp,
                IF s.c.set THEN s.c.counter ELSE 0,
                IF s.h.set THEN s.h.counter ELSE 0)
    ELSE IF type = SCP_ST_CONFIRM THEN
        Confirm(s.id, SCPBallot(s.b.counter, s.b.value), s.p.counter,
                s.c.counter, s.h.counter)
    ELSE Externalize(s.id, SCPBallot(s.c.counter, s.c.value), s.h.counter)

\* mutant: h and c are reset on every bump, compatible or not
bumpToBallotResets(s, ballot, check) ==
    LET gotBumped == ~s.b.set \/ s.b.counter # ballot.counter
        s0 == dbgAssert(dbgAssert(s, s.phase # SCP_PHASE_EXTERNALIZE,
                                  "bumpToBallot: phase"),
                        check /\ s.b.set => compareBallots(ballot, s.b) >= 0,
                        "bumpToBallot: order")
    IN  [s0 EXCEPT
           !.b = SCPBallot(ballot.counter, ballot.value),
           !.h = NullBallot,
           !.c = NullBallot,
           !.heard = IF gotBumped THEN FALSE ELSE @]

\* mutant: h is reset on every bump to another counter, compatible or not
bumpToBallotClearsHigh(s, ballot, check) ==
    LET gotBumped == ~s.b.set \/ s.b.counter # ballot.counter
        clear == s.h.set /\ ~areBallotsCompatible(ballot, s.h)
        s0 == dbgAssert(dbgAssert(s, s.phase # SCP_PHASE_EXTERNALIZE,
                                  "bumpToBallot: phase"),
                        check /\ s.b.set => compareBallots(ballot, s.b) >= 0,
                        "bumpToBallot: order")
    IN  [s0 EXCEPT
           !.b = SCPBallot(ballot.counter, ballot.value),
           !.h = IF clear \/ gotBumped THEN NullBallot ELSE @,
           !.c = IF clear THEN NullBallot ELSE @,
           !.heard = IF gotBumped THEN FALSE ELSE @]

bumpToBallot(s, ballot, check) ==
    LET gotBumped == ~s.b.set \/ s.b.counter # ballot.counter
        clear == s.h.set /\ ~areBallotsCompatible(ballot, s.h)
        s0 == dbgAssert(dbgAssert(s, s.phase # SCP_PHASE_EXTERNALIZE,
                                  "bumpToBallot: phase"),
                        check /\ s.b.set => compareBallots(ballot, s.b) >= 0,
                        "bumpToBallot: order")
    IN  [s0 EXCEPT
           !.b = SCPBallot(ballot.counter, ballot.value),
           !.h = IF clear THEN NullBallot ELSE @,
           !.c = IF clear THEN NullBallot ELSE @,
           !.heard = IF gotBumped THEN FALSE ELSE @]

\* mutant: b is moved to h whether or not h is above it
updateCurrentIfNeededAlways(s, h) ==
    [bumpToBallot(s, h, FALSE) EXCEPT !.res = TRUE]

updateCurrentIfNeeded(s, h) ==
    IF ~s.b.set \/ compareBallots(s.b, h) < 0
    THEN [bumpToBallot(s, h, TRUE) EXCEPT !.res = TRUE]
    ELSE [s EXCEPT !.res = FALSE]

updateCurrentValue(s, ballot) ==
    IF s.phase # SCP_PHASE_PREPARE /\ s.phase # SCP_PHASE_CONFIRM
    THEN [s EXCEPT !.res = FALSE]
    ELSE IF ~s.b.set
    THEN [checkInvariants(bumpToBallot(s, ballot, TRUE)) EXCEPT !.res = TRUE]
    ELSE LET s1 == dbgAssert(s, compareBallots(s.b, ballot) <= 0,
                             "updateCurrentValue")
             comp == compareBallots(s.b, ballot)
         IN  IF s.c.set /\ ~areBallotsCompatible(s.c, ballot)
             THEN [s1 EXCEPT !.res = FALSE]
             ELSE IF comp < 0
             THEN [checkInvariants(bumpToBallot(s1, ballot, TRUE))
                     EXCEPT !.res = TRUE]
             ELSE IF comp > 0 THEN [s1 EXCEPT !.res = FALSE]
             ELSE [checkInvariants(s1) EXCEPT !.res = FALSE]

\* mutant: the replaced p always becomes p', compatible or not
setPreparedKeepsOld(s, ballot) ==
    LET nb == SCPBallot(ballot.counter, ballot.value) IN
    IF s.p.set THEN
        LET comp == compareBallots(s.p, ballot) IN
        IF comp < 0 THEN [s EXCEPT !.pp = s.p, !.p = nb, !.res = TRUE]
        ELSE IF comp > 0 THEN
            IF ~s.pp.set \/ (compareBallots(s.pp, ballot) < 0
                             /\ ~areBallotsCompatible(s.p, ballot))
            THEN [s EXCEPT !.pp = nb, !.res = TRUE]
            ELSE [s EXCEPT !.res = FALSE]
        ELSE [s EXCEPT !.res = FALSE]
    ELSE [s EXCEPT !.p = nb, !.res = TRUE]

\* mutant: p is replaced by the ballot whatever their order
setPreparedAlways(s, ballot) ==
    [s EXCEPT !.p = SCPBallot(ballot.counter, ballot.value),
              !.res = ~s.p.set \/ compareBallots(s.p, ballot) # 0]

setPrepared(s, ballot) ==
    LET nb == SCPBallot(ballot.counter, ballot.value) IN
    IF s.p.set THEN
        LET comp == compareBallots(s.p, ballot) IN
        IF comp < 0 THEN
            [s EXCEPT !.pp = IF ~areBallotsCompatible(s.p, ballot)
                             THEN s.p ELSE @,
                      !.p = nb, !.res = TRUE]
        ELSE IF comp > 0 THEN
            IF ~s.pp.set \/ (compareBallots(s.pp, ballot) < 0
                             /\ ~areBallotsCompatible(s.p, ballot))
            THEN [s EXCEPT !.pp = nb, !.res = TRUE]
            ELSE [s EXCEPT !.res = FALSE]
        ELSE [s EXCEPT !.res = FALSE]
    ELSE [s EXCEPT !.p = nb, !.res = TRUE]

getPrepareCandidates(s, hint) ==
    LET hintBallots ==
            IF hint.type = SCP_ST_PREPARE THEN
                {hint.ballot}
                \cup (IF hint.prepared.set THEN {hint.prepared} ELSE {})
                \cup (IF hint.preparedPrime.set THEN {hint.preparedPrime}
                      ELSE {})
            ELSE IF hint.type = SCP_ST_CONFIRM THEN
                {SCPBallot(hint.nPrepared, hint.ballot.value),
                 SCPBallot(UINT32_MAX, hint.ballot.value)}
            ELSE {SCPBallot(UINT32_MAX, hint.ballot.value)}
        from(topVote, st) ==
            IF st.type = SCP_ST_PREPARE THEN
                {x \in {st.ballot, st.prepared, st.preparedPrime} :
                    x.set /\ areBallotsLessAndCompatible(x, topVote)}
            ELSE IF st.type = SCP_ST_CONFIRM THEN
                IF areBallotsCompatible(topVote, st.ballot) THEN
                    {topVote} \cup
                    (IF st.nPrepared < topVote.counter
                     THEN {SCPBallot(st.nPrepared, topVote.value)} ELSE {})
                ELSE {}
            ELSE IF areBallotsCompatible(topVote, st.ballot) THEN {topVote}
            ELSE {}
    IN  UNION {from(topVote, s.M[n]) :
                 topVote \in hintBallots,
                 n \in {m \in Nodes : s.M[m].type # NoType}}

getCommitBoundariesFromStatements(s, ballot) ==
    LET from(st) ==
            IF ~areBallotsCompatible(ballot, st.ballot) THEN {}
            ELSE IF st.type = SCP_ST_PREPARE THEN
                (IF st.nC # 0 THEN {st.nC, st.nH} ELSE {})
            ELSE IF st.type = SCP_ST_CONFIRM THEN {st.nC, st.nH}
            ELSE {st.ballot.counter, st.nH, UINT32_MAX}
    IN  UNION {from(s.M[n]) : n \in {m \in Nodes : s.M[m].type # NoType}}

\* the intervals findExtendedInterval may try over boundaries
Intervals(boundaries) ==
    {cur \in boundaries \X boundaries : cur[1] <= cur[2]}

RECURSIVE findExtendedIntervalFrom(_, _, _, _)
\* the loop of findExtendedInterval over boundaries[i..], top-down; the
\* predicate is given as the set of intervals it holds for
findExtendedIntervalFrom(candidate, boundaries, i, pred) ==
    IF i > Len(boundaries) THEN candidate
    ELSE LET b == boundaries[i]
             cur == IF candidate[1] = 0 THEN << b, b >>
                    ELSE << b, candidate[2] >>
         IN  IF candidate[1] # 0 /\ b > candidate[2]
             THEN findExtendedIntervalFrom(candidate, boundaries, i + 1, pred)
             ELSE IF cur \in pred
             THEN findExtendedIntervalFrom(cur, boundaries, i + 1, pred)
             ELSE IF candidate[1] # 0 THEN candidate
             ELSE findExtendedIntervalFrom(candidate, boundaries, i + 1, pred)

\* candidate starts as Interval() = (0, 0); pred is the set of the
\* intervals for which the predicate holds
findExtendedInterval(boundaries, pred) ==
    findExtendedIntervalFrom(<< 0, 0 >>, SortNatDesc(boundaries), 1, pred)

hasVBlockingSubsetStrictlyAheadOf(s, n) ==
    isVBlocking(s, {m \in Senders(s) : statementBallotCounter(s.M[m]) > n})

(***************************************************************************)
(* The mutually recursive core: processEnvelope -> advanceSlot ->          *)
(* attempt* -> set* -> emitCurrentStateStatement -> processEnvelope.       *)
(* Once err is set an exception is propagating: every later step of the    *)
(* call is skipped, and what the call would have returned (res, ret) has   *)
(* no meaning.                                                             *)
(***************************************************************************)
RECURSIVE processEnvelope(_, _, _)

recordEnvelope(s, st) == [s EXCEPT !.M[st.node] = st]

\* mutant: the statement replaces the latest envelope whether or not it is
\* newer
emitProcessedUnordered(s, statement, canEmit) ==
    IF s.err # 0 THEN s
    ELSE IF s.ret = VALID THEN
        IF canEmit
        THEN sendLatestEnvelope([s EXCEPT !.lastEnv = statement])
        ELSE s
    ELSE [s EXCEPT !.err = 2]

\* emitCurrentStateStatement once the self statement has been processed
emitProcessed(s, statement, canEmit) ==
    IF s.err # 0 THEN s
    ELSE IF s.ret = VALID THEN
        IF canEmit /\ (s.lastEnv.type = NoType
                       \/ isNewerStatement(s.lastEnv, statement))
        THEN sendLatestEnvelope([s EXCEPT !.lastEnv = statement])
        ELSE s
    ELSE [s EXCEPT !.err = 2]

\* emitCurrentStateStatement after its call of checkInvariants
emitStatement(s, statement) ==
    IF s.M[s.id].type = NoType \/ s.M[s.id] # statement
    THEN emitProcessed(processEnvelope(s, statement, TRUE), statement,
                       s.b.set)
    ELSE s

emitCurrentStateStatement(s) ==
    emitStatement(checkInvariants(s), createStatement(s, s.phase))

\* mutant: no phase check, and the ballot is set without going through
\* updateCurrentValue
bumpStateToAnyPhase(s, value, n) ==
    [checkHeardFromQuorum(emitCurrentStateStatement(
         [s EXCEPT !.b = SCPBallot(n, IF s.vo # 0 THEN s.vo ELSE value)]))
       EXCEPT !.res = TRUE]

\* bumpState(Value const&, uint32 n) after its call of updateCurrentValue
bumpStateUpdated(s) ==
    IF s.res
    THEN [checkHeardFromQuorum(emitCurrentStateStatement(s))
            EXCEPT !.res = TRUE]
    ELSE s

\* newb of bumpState(Value const&, uint32 n): the value override, when
\* set, replaces the value
bumpStateBallot(s, value, n) ==
    SCPBallot(n, IF s.vo # 0 THEN s.vo ELSE value)

\* bumpState(Value const&, uint32 n)
bumpStateTo(s, value, n) ==
    IF s.phase # SCP_PHASE_PREPARE /\ s.phase # SCP_PHASE_CONFIRM
    THEN [s EXCEPT !.res = FALSE]
    ELSE bumpStateUpdated(
             updateCurrentValue(s, bumpStateBallot(s, value, n)))

\* bumpState(Value const&, bool force)
bumpState(s, value, force) ==
    IF ~force /\ s.b.set THEN [s EXCEPT !.res = FALSE]
    ELSE bumpStateTo(s, value, IF s.b.set THEN Inc32(s.b.counter) ELSE 1)

\* v of abandonBallot: the latest composite candidate, or without one the
\* value of the current ballot; 0 when there is neither
abandonBallotValue(s) ==
    IF s.cc = 0 /\ s.b.set THEN s.b.value ELSE s.cc

\* mutant: the value of the current ballot comes before the composite
\* candidate
abandonBallotKeepsValue(s, n) ==
    LET v == IF s.b.set THEN s.b.value ELSE s.cc IN
    IF v = 0 THEN [s EXCEPT !.res = FALSE]
    ELSE IF n = 0 THEN bumpState(s, v, TRUE)
    ELSE bumpStateTo(s, v, n)

abandonBallot(s, n) ==
    IF abandonBallotValue(s) = 0 THEN [s EXCEPT !.res = FALSE]
    ELSE IF n = 0 THEN bumpState(s, abandonBallotValue(s), TRUE)
    ELSE bumpStateTo(s, abandonBallotValue(s), n)

\* mutant: the expiry is not counted
ballotProtocolTimerExpiredUncounted(s) == abandonBallot(s, 0)

ballotProtocolTimerExpired(s) ==
    abandonBallot([s EXCEPT !.timerExp = @ + 1], 0)

\* setAcceptPrepared after its call of setPrepared: c is reset when h has
\* become incompatible with p or p'
resetCommitIfNeeded(s) ==
    IF /\ s.c.set /\ s.h.set
       /\ \/ (s.p.set /\ areBallotsLessAndIncompatible(s.h, s.p))
          \/ (s.pp.set /\ areBallotsLessAndIncompatible(s.h, s.pp))
    THEN [dbgAssert(s, s.phase = SCP_PHASE_PREPARE, "setAcceptPrepared")
            EXCEPT !.c = NullBallot, !.res = TRUE]
    ELSE s

\* 'if (didWork) emitCurrentStateStatement(); return didWork', didWork
\* being in res
emitIfDidWork(s) ==
    IF s.res THEN [emitCurrentStateStatement(s) EXCEPT !.res = TRUE] ELSE s

setAcceptPrepared(s, ballot) ==
    emitIfDidWork(resetCommitIfNeeded(setPrepared(s, ballot)))

\* the 'voted' predicate of attemptAcceptPrepared
votesPrepare(ballot, st) ==
    IF st.type = SCP_ST_PREPARE
    THEN areBallotsLessAndCompatible(ballot, st.ballot)
    ELSE areBallotsCompatible(ballot, st.ballot)

\* mutant: the lowest candidate that is accepted is adopted
attemptAcceptPreparedLowest(s, hint) ==
    IF s.phase # SCP_PHASE_PREPARE /\ s.phase # SCP_PHASE_CONFIRM
    THEN [s EXCEPT !.res = FALSE]
    ELSE
    LET candidates == getPrepareCandidates(s, hint)
        skip(ballot) ==
            \/ (s.phase = SCP_PHASE_CONFIRM
                /\ ~areBallotsLessAndCompatible(s.p, ballot))
            \/ (s.pp.set /\ compareBallots(ballot, s.pp) <= 0)
            \/ (s.p.set /\ areBallotsLessAndCompatible(ballot, s.p))
        accepted ==
            {ballot \in candidates :
                /\ ~skip(ballot)
                /\ federatedAccept(s,
                       {n \in Senders(s) : votesPrepare(ballot, s.M[n])},
                       {n \in Senders(s) :
                           hasPreparedBallot(ballot, s.M[n])})}
        \* the candidates the loop visits before it returns
        visited == IF accepted = {} THEN candidates
                   ELSE {x \in candidates :
                           compareBallots(x, MaxBallot(accepted)) >= 0}
        assertFails ==
            /\ s.phase = SCP_PHASE_CONFIRM
            /\ \E x \in visited :
                  /\ areBallotsLessAndCompatible(s.p, x)
                  /\ ~areBallotsCompatible(s.c, x)
        s1 == dbgAssert(s, ~assertFails, "attemptAcceptPrepared")
    IN  IF accepted = {} THEN [s1 EXCEPT !.res = FALSE]
        ELSE setAcceptPrepared(s1,
                 CHOOSE x \in accepted :
                    \A y \in accepted : compareBallots(x, y) <= 0)

attemptAcceptPrepared(s, hint) ==
    IF s.phase # SCP_PHASE_PREPARE /\ s.phase # SCP_PHASE_CONFIRM
    THEN [s EXCEPT !.res = FALSE]
    ELSE
    LET candidates == getPrepareCandidates(s, hint)
        skip(ballot) ==
            \/ (s.phase = SCP_PHASE_CONFIRM
                /\ ~areBallotsLessAndCompatible(s.p, ballot))
            \/ (s.pp.set /\ compareBallots(ballot, s.pp) <= 0)
            \/ (s.p.set /\ areBallotsLessAndCompatible(ballot, s.p))
        accepted ==
            {ballot \in candidates :
                /\ ~skip(ballot)
                /\ federatedAccept(s,
                       {n \in Senders(s) : votesPrepare(ballot, s.M[n])},
                       {n \in Senders(s) :
                           hasPreparedBallot(ballot, s.M[n])})}
        \* the candidates the loop visits before it returns
        visited == IF accepted = {} THEN candidates
                   ELSE {x \in candidates :
                           compareBallots(x, MaxBallot(accepted)) >= 0}
        assertFails ==
            /\ s.phase = SCP_PHASE_CONFIRM
            /\ \E x \in visited :
                  /\ areBallotsLessAndCompatible(s.p, x)
                  /\ ~areBallotsCompatible(s.c, x)
        s1 == dbgAssert(s, ~assertFails, "attemptAcceptPrepared")
    IN  IF accepted = {} THEN [s1 EXCEPT !.res = FALSE]
        ELSE setAcceptPrepared(s1, MaxBallot(accepted))

\* 'if (didWork) emitCurrentStateStatement(); return didWork'
emitIf(s, didWork) ==
    IF didWork THEN [emitCurrentStateStatement(s) EXCEPT !.res = TRUE]
    ELSE [s EXCEPT !.res = FALSE]

\* mutant: step (8), updateCurrentIfNeeded(newH), is left out
setConfirmPreparedNoUpdate(s, newC, newH) ==
    LET onCompatible == ~s.b.set \/ areBallotsCompatible(s.b, newH)
        raiseH == onCompatible
                  /\ (~s.h.set \/ compareBallots(newH, s.h) > 0)
        setC == onCompatible /\ newC.counter # 0
    IN  emitIf(
            [dbgAssert(s, ~(setC /\ s.c.set), "setConfirmPrepared")
               EXCEPT
               !.vo = newH.value,
               !.h = IF raiseH THEN SCPBallot(newH.counter, newH.value)
                     ELSE @,
               !.c = IF setC THEN SCPBallot(newC.counter, newC.value)
                     ELSE @],
            raiseH \/ setC)

\* mutant: h and c are set whether or not the new h is compatible with b
confirmPreparedUpdatedAnyBallot(s, newC, newH) ==
    LET raiseH == ~s.h.set \/ compareBallots(newH, s.h) > 0
        setC == newC.counter # 0
        updated ==
            updateCurrentIfNeeded(
                [dbgAssert(s, ~(setC /\ s.c.set), "setConfirmPrepared")
                   EXCEPT
                   !.vo = newH.value,
                   !.h = IF raiseH THEN SCPBallot(newH.counter, newH.value)
                         ELSE @,
                   !.c = IF setC THEN SCPBallot(newC.counter, newC.value)
                         ELSE @],
                newH)
    IN  [updated EXCEPT !.res = @ \/ raiseH \/ setC]

\* setConfirmPrepared up to its call of updateCurrentIfNeeded; res is
\* didWork
confirmPreparedUpdated(s, newC, newH) ==
    LET onCompatible == ~s.b.set \/ areBallotsCompatible(s.b, newH)
        raiseH == onCompatible
                  /\ (~s.h.set \/ compareBallots(newH, s.h) > 0)
        setC == onCompatible /\ newC.counter # 0
        updated ==
            updateCurrentIfNeeded(
                [dbgAssert(s, ~(setC /\ s.c.set), "setConfirmPrepared")
                   EXCEPT
                   !.vo = newH.value,
                   !.h = IF raiseH THEN SCPBallot(newH.counter, newH.value)
                         ELSE @,
                   !.c = IF setC THEN SCPBallot(newC.counter, newC.value)
                         ELSE @],
                newH)
    IN  [updated EXCEPT !.res = @ \/ raiseH \/ setC]

setConfirmPrepared(s, newC, newH) ==
    emitIfDidWork(confirmPreparedUpdated(s, newC, newH))

\* mutant: the new c is the new h itself, the run below it is not followed
findNewCHighest(cands, i, b, newH, ratified, newC) ==
    IF compareBallots(cands[i], b) >= 0 /\ cands[i] \in ratified
    THEN cands[i] ELSE newC

RECURSIVE findNewC(_, _, _, _, _, _)
\* the second loop of attemptConfirmPrepared, from position i of the
\* candidates in descending order; ratified is the set of candidates a
\* quorum has prepared
findNewC(cands, i, b, newH, ratified, newC) ==
    IF i > Len(cands) THEN newC
    ELSE LET ballot == cands[i] IN
         IF compareBallots(ballot, b) < 0 THEN newC
         ELSE IF ~areBallotsLessAndCompatible(ballot, newH)
         THEN findNewC(cands, i + 1, b, newH, ratified, newC)
         ELSE IF ballot \in ratified
         THEN findNewC(cands, i + 1, b, newH, ratified, ballot)
         ELSE newC

attemptConfirmPrepared(s, hint) ==
    IF s.phase # SCP_PHASE_PREPARE \/ ~s.p.set
    THEN [s EXCEPT !.res = FALSE]
    ELSE
    LET candidates == getPrepareCandidates(s, hint)
        ratified == {ballot \in candidates :
                       federatedRatify(s,
                           {n \in Senders(s) :
                               hasPreparedBallot(ballot, s.M[n])})}
        above == {ballot \in ratified :
                    ~(s.h.set /\ compareBallots(s.h, ballot) >= 0)}
        \* the names below are used when above is not empty
        newH == MaxBallot(above)
        sorted == SortDesc(candidates)
        cur == CHOOSE i \in 1..Len(sorted) : sorted[i] = newH
        b == IF s.b.set THEN s.b ELSE DefaultBallot
        newC ==
            IF /\ ~s.c.set
               /\ (~s.p.set \/ ~areBallotsLessAndIncompatible(newH, s.p))
               /\ (~s.pp.set \/ ~areBallotsLessAndIncompatible(newH, s.pp))
            THEN findNewC(sorted, cur, b, newH, ratified, DefaultBallot)
            ELSE DefaultBallot
    IN  IF above = {} THEN [s EXCEPT !.res = FALSE]
        ELSE setConfirmPrepared(s, newC, newH)

\* setAcceptCommit: the new c and h are stored when they differ
storeCommit(s, c, h, changed) ==
    IF changed THEN [s EXCEPT !.vo = h.value, !.c = c, !.h = h]
    ELSE [s EXCEPT !.vo = h.value]

\* setAcceptCommit: the bump to h on entering CONFIRM
bumpToHigh(s, h) ==
    IF s.b.set /\ ~areBallotsLessAndCompatible(h, s.b)
    THEN bumpToBallot(s, h, FALSE) ELSE s

\* mutant: the phase is set to EXTERNALIZE where CONFIRM is meant
enterConfirmExternalizes(s, h) ==
    IF s.phase = SCP_PHASE_PREPARE
    THEN [bumpToHigh(setPhase(s, SCP_PHASE_EXTERNALIZE), h)
            EXCEPT !.pp = NullBallot]
    ELSE s

\* setAcceptCommit: the move from PREPARE to CONFIRM
\* mutant: the transition to phase CONFIRM leaves p' as it was
enterConfirmKeepsPrime(s, h) ==
    IF s.phase = SCP_PHASE_PREPARE
    THEN bumpToHigh(setPhase(s, SCP_PHASE_CONFIRM), h)
    ELSE s

enterConfirm(s, h) ==
    IF s.phase = SCP_PHASE_PREPARE
    THEN [bumpToHigh(setPhase(s, SCP_PHASE_CONFIRM), h)
            EXCEPT !.pp = NullBallot]
    ELSE s

\* setAcceptCommit: the tail 'if (didWork)'
updateAndEmitIf(s, didWork) ==
    IF didWork
    THEN [emitCurrentStateStatement(updateCurrentIfNeeded(s, s.h))
            EXCEPT !.res = TRUE]
    ELSE [s EXCEPT !.res = FALSE]

\* whether setAcceptCommit(c, h) changes c or h
commitChanged(s, c, h) ==
    \/ ~s.h.set \/ ~s.c.set
    \/ compareBallots(s.h, h) # 0
    \/ compareBallots(s.c, c) # 0

\* mutant: c and h are stored the wrong way round
setAcceptCommitSwapped(s, c, h) ==
    updateAndEmitIf(
        enterConfirm(
            [storeCommit(s, h, c, commitChanged(s, c, h))
               EXCEPT !.vo = h.value], h),
        commitChanged(s, c, h) \/ s.phase = SCP_PHASE_PREPARE)

setAcceptCommit(s, c, h) ==
    updateAndEmitIf(
        enterConfirm(storeCommit(s, c, h, commitChanged(s, c, h)), h),
        commitChanged(s, c, h) \/ s.phase = SCP_PHASE_PREPARE)

\* the 'voted' predicate of attemptAcceptCommit
votesCommit(ballot, cur, st) ==
    IF ~areBallotsCompatible(ballot, st.ballot) THEN FALSE
    ELSE IF st.type = SCP_ST_PREPARE
    THEN st.nC # 0 /\ st.nC <= cur[1] /\ cur[2] <= st.nH
    ELSE IF st.type = SCP_ST_CONFIRM THEN st.nC <= cur[1]
    ELSE st.ballot.counter <= cur[1]

\* mutant: in phase CONFIRM the interval is accepted whether or not it
\* reaches above h
attemptAcceptCommitAnyHigh(s, hint) ==
    IF \/ (s.phase # SCP_PHASE_PREPARE /\ s.phase # SCP_PHASE_CONFIRM)
       \/ (hint.type = SCP_ST_PREPARE /\ hint.nC = 0)
    THEN [s EXCEPT !.res = FALSE]
    ELSE
    LET ballot == SCPBallot(hint.nH, hint.ballot.value)
        pred(cur) ==
            federatedAccept(s,
                {n \in Senders(s) : votesCommit(ballot, cur, s.M[n])},
                {n \in Senders(s) : commitPredicate(ballot, cur, s.M[n])})
        boundaries == getCommitBoundariesFromStatements(s, ballot)
        candidate == findExtendedInterval(boundaries,
                         {cur \in Intervals(boundaries) : pred(cur)})
    IN  IF /\ ~(s.phase = SCP_PHASE_CONFIRM
                /\ ~areBallotsCompatible(ballot, s.h))
           /\ boundaries # {}
           /\ candidate[1] # 0
        THEN setAcceptCommit(s, SCPBallot(candidate[1], ballot.value),
                             SCPBallot(candidate[2], ballot.value))
        ELSE [s EXCEPT !.res = FALSE]

attemptAcceptCommit(s, hint) ==
    IF \/ (s.phase # SCP_PHASE_PREPARE /\ s.phase # SCP_PHASE_CONFIRM)
       \/ (hint.type = SCP_ST_PREPARE /\ hint.nC = 0)
    THEN [s EXCEPT !.res = FALSE]
    ELSE
    LET ballot == SCPBallot(hint.nH, hint.ballot.value)
        pred(cur) ==
            federatedAccept(s,
                {n \in Senders(s) : votesCommit(ballot, cur, s.M[n])},
                {n \in Senders(s) : commitPredicate(ballot, cur, s.M[n])})
        boundaries == getCommitBoundariesFromStatements(s, ballot)
        candidate == findExtendedInterval(boundaries,
                         {cur \in Intervals(boundaries) : pred(cur)})
    IN  IF /\ ~(s.phase = SCP_PHASE_CONFIRM
                /\ ~areBallotsCompatible(ballot, s.h))
           /\ boundaries # {}
           /\ candidate[1] # 0
           /\ (s.phase # SCP_PHASE_CONFIRM \/ candidate[2] > s.h.counter)
        THEN setAcceptCommit(s, SCPBallot(candidate[1], ballot.value),
                             SCPBallot(candidate[2], ballot.value))
        ELSE [s EXCEPT !.res = FALSE]

\* setConfirmCommit after emitCurrentStateStatement: nomination is
\* stopped and the value externalized
valueExternalized(s) ==
    IF s.err # 0 THEN s ELSE [s EXCEPT !.ext = @ + 1, !.res = TRUE]

\* mutant: the commit is confirmed without leaving phase CONFIRM
setConfirmCommitKeepsPhase(s, c, h) ==
    valueExternalized(
        emitCurrentStateStatement(
            updateCurrentIfNeeded([s EXCEPT !.c = c, !.h = h], h)))

\* mutant: the confirmed interval's upper end is not stored in h
setConfirmCommitKeepsHigh(s, c, h) ==
    valueExternalized(
        emitCurrentStateStatement(
            setPhase(updateCurrentIfNeeded([s EXCEPT !.c = c], h),
                     SCP_PHASE_EXTERNALIZE)))

setConfirmCommit(s, c, h) ==
    valueExternalized(
        emitCurrentStateStatement(
            setPhase(updateCurrentIfNeeded([s EXCEPT !.c = c, !.h = h], h),
                     SCP_PHASE_EXTERNALIZE)))

attemptConfirmCommit(s, hint) ==
    IF \/ s.phase # SCP_PHASE_CONFIRM \/ ~s.h.set \/ ~s.c.set
       \/ hint.type = SCP_ST_PREPARE
    THEN [s EXCEPT !.res = FALSE]
    ELSE
    LET ballot == SCPBallot(hint.nH, hint.ballot.value)
        pred(cur) ==
            federatedRatify(s,
                {n \in Senders(s) : commitPredicate(ballot, cur, s.M[n])})
        boundaries == getCommitBoundariesFromStatements(s, ballot)
        candidate == findExtendedInterval(boundaries,
                         {cur \in Intervals(boundaries) : pred(cur)})
    IN  IF areBallotsCompatible(ballot, s.c) /\ candidate[1] # 0
        THEN setConfirmCommit(s, SCPBallot(candidate[1], ballot.value),
                              SCPBallot(candidate[2], ballot.value))
        ELSE [s EXCEPT !.res = FALSE]

\* mutant: the node moves to the highest counter no v-blocking set is
\* ahead of
attemptBumpHighest(s) ==
    IF s.phase = SCP_PHASE_PREPARE \/ s.phase = SCP_PHASE_CONFIRM THEN
        LET localCounter == IF s.b.set THEN s.b.counter ELSE 0
            allCounters ==
                {x \in {statementBallotCounter(s.M[n]) :
                          n \in {m \in Nodes : s.M[m].type # NoType}} :
                   x > localCounter}
            free == {n \in allCounters :
                       ~hasVBlockingSubsetStrictlyAheadOf(s, n)}
        IN  IF ~hasVBlockingSubsetStrictlyAheadOf(s, localCounter)
               \/ free = {}
            THEN [s EXCEPT !.res = FALSE]
            ELSE abandonBallot(s, CHOOSE n \in free : \A m \in free : n >= m)
    ELSE [s EXCEPT !.res = FALSE]

\* mutant: the node moves one counter past the one it should move to
attemptBumpPast(s) ==
    IF s.phase = SCP_PHASE_PREPARE \/ s.phase = SCP_PHASE_CONFIRM THEN
        LET localCounter == IF s.b.set THEN s.b.counter ELSE 0
            allCounters ==
                {x \in {statementBallotCounter(s.M[n]) :
                          n \in {m \in Nodes : s.M[m].type # NoType}} :
                   x > localCounter}
            free == {n \in allCounters :
                       ~hasVBlockingSubsetStrictlyAheadOf(s, n)}
        IN  IF ~hasVBlockingSubsetStrictlyAheadOf(s, localCounter)
               \/ free = {}
            THEN [s EXCEPT !.res = FALSE]
            ELSE abandonBallot(
                     s, Inc32(CHOOSE n \in free : \A m \in free : n <= m))
    ELSE [s EXCEPT !.res = FALSE]

attemptBump(s) ==
    IF s.phase = SCP_PHASE_PREPARE \/ s.phase = SCP_PHASE_CONFIRM THEN
        LET localCounter == IF s.b.set THEN s.b.counter ELSE 0
            allCounters ==
                {x \in {statementBallotCounter(s.M[n]) :
                          n \in {m \in Nodes : s.M[m].type # NoType}} :
                   x > localCounter}
            free == {n \in allCounters :
                       ~hasVBlockingSubsetStrictlyAheadOf(s, n)}
        IN  IF ~hasVBlockingSubsetStrictlyAheadOf(s, localCounter)
               \/ free = {}
            THEN [s EXCEPT !.res = FALSE]
            ELSE abandonBallot(s, CHOOSE n \in free : \A m \in free : n <= m)
    ELSE [s EXCEPT !.res = FALSE]

RECURSIVE bumpLoop(_, _)
\* the do-while of advanceSlot, s being the state after a call of
\* attemptBump; res is TRUE when some attemptBump did bump
bumpLoop(s, bumped) ==
    IF s.err # 0 THEN s
    ELSE IF s.res THEN bumpLoop(attemptBump(s), TRUE)
    ELSE [s EXCEPT !.res = bumped]

\* the end of advanceSlot: the recursion level drops and the latest
\* envelope is sent if there was work
advanceSlotDone(s, didWork) ==
    IF s.err # 0 THEN s
    ELSE IF didWork THEN sendLatestEnvelope([s EXCEPT !.level = @ - 1])
    ELSE [s EXCEPT !.level = @ - 1]

\* advanceSlot after the do-while of attemptBump, whose result is in res
advanceSlotBumped(s, didWork) ==
    advanceSlotDone(checkHeardFromQuorum(s), didWork \/ s.res)

\* mutant: the do-while of attemptBump is left out
advanceSlotNeverBumps(s, didWork) ==
    IF s.err # 0 THEN [s EXCEPT !.res = FALSE]
    ELSE IF s.level = 1
    THEN advanceSlotBumped([s EXCEPT !.res = FALSE], didWork \/ s.res)
    ELSE advanceSlotDone([s EXCEPT !.res = FALSE], didWork \/ s.res)

\* advanceSlot after attemptConfirmCommit, whose result is in res; the
\* do-while of attemptBump runs at the outermost level only
advanceSlotConfirmedCommit(s, didWork) ==
    IF s.err # 0 THEN [s EXCEPT !.res = FALSE]
    ELSE IF s.level = 1
    THEN advanceSlotBumped(bumpLoop(attemptBump(s), FALSE),
                           didWork \/ s.res)
    ELSE advanceSlotDone([s EXCEPT !.res = FALSE], didWork \/ s.res)

\* advanceSlot after attemptAcceptCommit, whose result is in res
advanceSlotAcceptedCommit(s, hint, didWork) ==
    IF s.err # 0 THEN [s EXCEPT !.res = FALSE]
    ELSE advanceSlotConfirmedCommit(attemptConfirmCommit(s, hint),
                                    didWork \/ s.res)

\* advanceSlot after attemptConfirmPrepared, whose result is in res
advanceSlotConfirmedPrepared(s, hint, didWork) ==
    IF s.err # 0 THEN [s EXCEPT !.res = FALSE]
    ELSE advanceSlotAcceptedCommit(attemptAcceptCommit(s, hint), hint,
                                   didWork \/ s.res)

\* advanceSlot after attemptAcceptPrepared, whose result is in res
advanceSlotAcceptedPrepared(s, hint) ==
    IF s.err # 0 THEN [s EXCEPT !.res = FALSE]
    ELSE advanceSlotConfirmedPrepared(attemptConfirmPrepared(s, hint), hint,
                                      s.res)

\* mutant: the exception is thrown above the cap, not on reaching it
advanceSlotAboveCap(s, hint) ==
    IF s.level + 1 > MAX_ADVANCE_SLOT_RECURSION
    THEN [s EXCEPT !.level = @ + 1, !.adv = @ + 1, !.err = 1]
    ELSE advanceSlotAcceptedPrepared(
             attemptAcceptPrepared(
                 [s EXCEPT !.level = @ + 1, !.adv = @ + 1], hint),
             hint)

advanceSlot(s, hint) ==
    IF s.level + 1 >= MAX_ADVANCE_SLOT_RECURSION
    THEN [s EXCEPT !.level = @ + 1, !.adv = @ + 1, !.err = 1]
    ELSE advanceSlotAcceptedPrepared(
             attemptAcceptPrepared(
                 [s EXCEPT !.level = @ + 1, !.adv = @ + 1], hint),
             hint)

\* processEnvelope: the slot is no longer fully validated once a value is
\* only maybe valid
setFullyValidated(s, validationRes) ==
    [s EXCEPT !.fv = IF validationRes = kMaybeValidValue THEN FALSE ELSE @]

\* mutant: in EXTERNALIZE the statement is recorded whatever its value
processEnvelopeAnyValue(s, statement, self) ==
    IF \/ ~isStatementSane(statement, self)
       \/ ~isNewerStatementFor(s, statement.node, statement)
       \/ validateValues(s, statement) = kInvalidValue
    THEN [s EXCEPT !.ret = INVALID]
    ELSE IF s.phase # SCP_PHASE_EXTERNALIZE
    THEN [advanceSlot(
              recordEnvelope(
                  setFullyValidated(s, validateValues(s, statement)),
                  statement),
              statement)
            EXCEPT !.ret = VALID]
    ELSE [recordEnvelope(s, statement) EXCEPT !.ret = VALID]

\* mutant: the envelope is recorded, and the slot marked, before the
\* values are found invalid or the EXTERNALIZE value is compared
processEnvelopeRecordsFirst(s, statement, self) ==
    IF \/ ~isStatementSane(statement, self)
       \/ ~isNewerStatementFor(s, statement.node, statement)
    THEN [s EXCEPT !.ret = INVALID]
    ELSE IF validateValues(s, statement) = kInvalidValue
    THEN [recordEnvelope(
              setFullyValidated(s, validateValues(s, statement)), statement)
            EXCEPT !.ret = INVALID]
    ELSE IF s.phase # SCP_PHASE_EXTERNALIZE
    THEN [advanceSlot(
              recordEnvelope(
                  setFullyValidated(s, validateValues(s, statement)),
                  statement),
              statement)
            EXCEPT !.ret = VALID]
    ELSE IF s.c.value = getWorkingBallot(statement).value
    THEN [recordEnvelope(
              setFullyValidated(s, validateValues(s, statement)), statement)
            EXCEPT !.ret = VALID]
    ELSE [recordEnvelope(
              setFullyValidated(s, validateValues(s, statement)), statement)
            EXCEPT !.ret = INVALID]

\* mutant: the slot is marked before the phase is looked at
processEnvelopeMarksFirst(s, statement, self) ==
    IF \/ ~isStatementSane(statement, self)
       \/ ~isNewerStatementFor(s, statement.node, statement)
       \/ validateValues(s, statement) = kInvalidValue
    THEN [s EXCEPT !.ret = INVALID]
    ELSE IF s.phase # SCP_PHASE_EXTERNALIZE
    THEN [advanceSlot(
              recordEnvelope(
                  setFullyValidated(s, validateValues(s, statement)),
                  statement),
              statement)
            EXCEPT !.ret = VALID]
    ELSE IF s.c.value = getWorkingBallot(statement).value
    THEN [recordEnvelope(
              setFullyValidated(s, validateValues(s, statement)), statement)
            EXCEPT !.ret = VALID]
    ELSE [setFullyValidated(s, validateValues(s, statement))
            EXCEPT !.ret = INVALID]

processEnvelope(s, statement, self) ==
    IF \/ ~isStatementSane(statement, self)
       \/ ~isNewerStatementFor(s, statement.node, statement)
       \/ validateValues(s, statement) = kInvalidValue
    THEN [s EXCEPT !.ret = INVALID]
    ELSE IF s.phase # SCP_PHASE_EXTERNALIZE
    THEN [advanceSlot(
              recordEnvelope(
                  setFullyValidated(s, validateValues(s, statement)),
                  statement),
              statement)
            EXCEPT !.ret = VALID]
    ELSE IF s.c.value = getWorkingBallot(statement).value
    THEN [recordEnvelope(s, statement) EXCEPT !.ret = VALID]
    ELSE [s EXCEPT !.ret = INVALID]

(***************************************************************************)
(* The state machine.                                                      *)
(*   node   the ballot protocol state of every node                        *)
(*   net    the envelopes the nodes have handed to emitEnvelope            *)
(***************************************************************************)
VARIABLES node, net

vars == << node, net >>

\* entry of a top-level call: nothing emitted or returned yet
enter(s) ==
    [s EXCEPT !.out = << >>, !.ret = "none", !.res = FALSE, !.adv = 0,
              !.arms = 0]

\* what a top-level call leaves behind once its results have been read
leave(s) ==
    [s EXCEPT !.out = << >>, !.ret = "none", !.res = FALSE, !.adv = 0,
              !.arms = 0]

Range(seq) == {seq[i] : i \in 1..Len(seq)}

\* counters of the statements the adversarial peer submits; a PREPARE may
\* also vote for a ballot of counter 2
PeerCounters == {1}
Ballots == {SCPBallot(n, v) : n \in PeerCounters, v \in Values}
OptBallots == Ballots \cup {NullBallot}

\* the statements a peer may submit: every PREPARE, CONFIRM and EXTERNALIZE
\* over the bounded fields that isStatementSane lets through
PeerPrepares(n) ==
    {Prepare(n, b, p, pp, nC, nH) :
        b \in Ballots \cup {SCPBallot(2, v) : v \in Values},
        p \in OptBallots, pp \in OptBallots,
        nC \in {0} \cup PeerCounters, nH \in {0} \cup PeerCounters}

PeerConfirms(n) ==
    {Confirm(n, b, nP, nC, nH) :
        b \in Ballots, nP \in {0, UINT32_MAX} \cup PeerCounters,
        nC \in {0} \cup PeerCounters, nH \in {0} \cup PeerCounters}

PeerExternalizes(n) ==
    {Externalize(n, c, nH) :
        c \in Ballots, nH \in {UINT32_MAX} \cup PeerCounters}

SanePeerStatements(n) ==
    {st \in PeerPrepares(n) \cup PeerConfirms(n) \cup PeerExternalizes(n) :
        isStatementSane(st, FALSE)}

\* a malformed statement of each type
PeerMalformed(n) ==
    {Prepare(n, SCPBallot(0, 1), NullBallot, NullBallot, 0, 0),
     Prepare(n, SCPBallot(1, 1), NullBallot, NullBallot, 0, 1),
     Confirm(n, SCPBallot(1, 1), 1, 2, 1),
     Externalize(n, SCPBallot(2, 1), 1)}

\* statements the other checks of processEnvelope reject whatever the
\* state: a value the validator refuses, a quorum set that does not resolve
PeerRejects(n) ==
    {Prepare(n, SCPBallot(1, BadValue), NullBallot, NullBallot, 0, 0),
     Confirm(n, SCPBallot(1, BadValue), 1, 1, 1),
     [Prepare(n, SCPBallot(2, 2), NullBallot, NullBallot, 0, 0)
        EXCEPT !.qh = 0]}

PeerStatements(n) ==
    SanePeerStatements(n) \cup PeerMalformed(n) \cup PeerRejects(n)

\* what validateValue answers for each value
AllValid ==
    [v \in Values \cup {BadValue} |->
        IF v = BadValue THEN kInvalidValue ELSE kFullyValidatedValue]

SomeMaybeValid ==
    [v \in Values \cup {BadValue} |->
        IF v = BadValue THEN kInvalidValue
        ELSE IF v = 2 THEN kMaybeValidValue ELSE kFullyValidatedValue]

(***************************************************************************)
(* The top-level calls on node n.  bcast says whether the envelopes the   *)
(* call hands to emitEnvelope are kept in net.                            *)
(***************************************************************************)
finish(n, s, bcast) ==
    /\ node' = [node EXCEPT ![n] = leave(s)]
    /\ net' = IF bcast THEN net \cup Range(s.out) ELSE net

\* an envelope of another node reaches node n
ProcessEnvelope(n, st, bcast) ==
    /\ node[n].err = 0
    /\ finish(n, processEnvelope(enter(node[n]), st, FALSE), bcast)

\* Slot::bumpState
BumpState(n, v, force, bcast) ==
    /\ node[n].err = 0
    /\ node[n].b.set => node[n].b.counter < MaxCounter
    /\ finish(n, bumpState(enter(node[n]), v, force), bcast)

\* abandonBallot(k); like its caller attemptBump, with k above the counter
\* of the current ballot, or 0
AbandonBallot(n, k, bcast) ==
    /\ node[n].err = 0
    /\ IF k = 0 THEN node[n].b.set => node[n].b.counter < MaxCounter
       ELSE node[n].b.set => node[n].b.counter < k
    /\ finish(n, abandonBallot(enter(node[n]), k), bcast)

\* the scheduler fires the armed ballot timer, which is one-shot
TimerExpired(n, bcast) ==
    /\ node[n].err = 0
    /\ node[n].timer
    /\ node[n].b.counter < MaxCounter
    /\ finish(n, ballotProtocolTimerExpired(
                     stopBallotProtocolTimer(enter(node[n]))), bcast)

\* nomination produces a new composite candidate
SetCompositeCandidate(n, v, bcast) ==
    /\ node[n].err = 0
    /\ node[n].phase # SCP_PHASE_EXTERNALIZE
    /\ node[n].cc # v
    /\ finish(n, [enter(node[n]) EXCEPT !.cc = v], bcast)

(***************************************************************************)
(* Spec: the local node against an arbitrary peer.  The local node's      *)
(* quorum set is QThreshold of {local, peer 1}; the peer submits any      *)
(* statement of PeerStatements, in any order.                             *)
(***************************************************************************)
Init ==
    /\ node = [n \in Nodes |-> BallotProtocol(n, AllValid, QSet({0, 1}))]
    /\ net = {}

\* the statements of the peer of the local node
Deliveries == PeerStatements(1)

PeerEnvelope ==
    \E st \in Deliveries : ProcessEnvelope(LocalNodeID, st, FALSE)

LocalBump ==
    \E v \in Values, force \in BOOLEAN :
        BumpState(LocalNodeID, v, force, FALSE)

LocalAbandon ==
    \E k \in 0..MaxCounter : AbandonBallot(LocalNodeID, k, FALSE)

LocalTimer == TimerExpired(LocalNodeID, FALSE)

LocalNomination ==
    \E v \in Values : SetCompositeCandidate(LocalNodeID, v, FALSE)

Next ==
    \/ PeerEnvelope
    \/ LocalBump
    \/ LocalAbandon
    \/ LocalTimer
    \/ LocalNomination

Spec == Init /\ [][Next]_vars

(***************************************************************************)
(* SpecMaybeValid: as Spec, with a validator that answers                  *)
(* kMaybeValidValue for one of the values, so that the slot may stop being *)
(* fully validated.                                                        *)
(***************************************************************************)
InitMaybeValid ==
    /\ node = [n \in Nodes |->
                 BallotProtocol(n, SomeMaybeValid, QSet({0, 1}))]
    /\ net = {}

NextMaybeValid ==
    \/ PeerEnvelope
    \/ LocalBump

SpecMaybeValid == InitMaybeValid /\ [][NextMaybeValid]_vars

(***************************************************************************)
(* SpecNet: a network of well-behaved nodes, each running the protocol    *)
(* for the same slot with the quorum set QThreshold of NetNodes, so that  *)
(* any two quorums intersect.  An envelope, once broadcast, may reach the *)
(* other node at any time, any number of times, in any order.             *)
(***************************************************************************)
\* the nodes that take part; they are each other's whole quorum set
NetNodes == {0, 1}

InitNet ==
    /\ node = [n \in Nodes |-> BallotProtocol(n, AllValid, QSet(NetNodes))]
    /\ net = {}

\* nomination produces a new composite candidate and starts the ballot
\* protocol with it if it has not started yet
NetNomination ==
    \E n \in NetNodes, v \in Values :
        /\ node[n].err = 0
        /\ node[n].phase # SCP_PHASE_EXTERNALIZE
        /\ node[n].cc # v
        /\ finish(n, bumpState([enter(node[n]) EXCEPT !.cc = v], v, FALSE),
                  TRUE)

NetTimer == \E n \in NetNodes : TimerExpired(n, TRUE)

NetDeliver ==
    \E n \in NetNodes, st \in net :
        /\ st.node # n
        /\ ProcessEnvelope(n, st, TRUE)

NextNet ==
    \/ NetNomination
    \/ NetTimer
    \/ NetDeliver

SpecNet == InitNet /\ [][NextNet]_vars

(***************************************************************************)
(* SpecDepth: processEnvelope as a function of the nesting level.  The    *)
(* chain of nested advanceSlot invocations below the envelope is replaced *)
(* by its effect on mCurrentMessageLevel: the peer's envelopes reach the  *)
(* local node of Spec with mCurrentMessageLevel anywhere in the last      *)
(* DepthSlack + 1 levels under the cap.                                    *)
(***************************************************************************)
DepthSlack == 3

Depths ==
    (MAX_ADVANCE_SLOT_RECURSION - 1 - DepthSlack)
        ..(MAX_ADVANCE_SLOT_RECURSION - 1)

InitDepth ==
    /\ \E d \in Depths :
           node = [n \in Nodes |->
                     [BallotProtocol(n, AllValid, QSet({0, 1}))
                        EXCEPT !.level = IF n = LocalNodeID THEN d ELSE @]]
    /\ net = {}

NextDepth == PeerEnvelope

SpecDepth == InitDepth /\ [][NextDepth]_vars

(***************************************************************************)
(* SpecBump: the local node with the quorum set QThreshold of             *)
(* {local, peer 1, peer 2}, so that it takes both peers to block it.  The *)
(* peers submit PREPARE statements that vote for a ballot and accept      *)
(* nothing, at counters up to BumpMaxCounter.                              *)
(***************************************************************************)
BumpMaxCounter == 4

BumpStatements(n) ==
    {Prepare(n, SCPBallot(k, v), NullBallot, NullBallot, 0, 0) :
        k \in 1..BumpMaxCounter, v \in Values}

BumpDeliveries == BumpStatements(1) \cup BumpStatements(2)

InitBump ==
    /\ node = [n \in Nodes |->
                 BallotProtocol(n, AllValid, QSet({0, 1, 2}))]
    /\ net = {}

PeersPrepare ==
    \E st \in BumpDeliveries : ProcessEnvelope(LocalNodeID, st, FALSE)

NextBump ==
    \/ PeersPrepare
    \/ LocalBump

SpecBump == InitBump /\ [][NextBump]_vars

(***************************************************************************)
(* SpecTrio: the three nodes, each with the quorum set QThreshold of all  *)
(* three, after each has started the ballot protocol with bumpState on    *)
(* the value TrioValue and broadcast its first PREPARE.  A delivery hands *)
(* a node the latest envelope another node has emitted, whatever the node *)
(* has seen of the envelopes before it; no ballot timer fires.            *)
(*                                                                         *)
(* FairTrio adds weak fairness of TrioDeliver: every envelope is          *)
(* eventually delivered.  It is WF_vars(TrioDeliver) written out as       *)
(* []<>(~ENABLED <<A>>_vars) \/ []<><<A>>_vars, with the state predicate   *)
(* TrioPending for ENABLED <<TrioDeliver>>_vars.                           *)
(***************************************************************************)
TrioValue == 1

\* node n once it has called bumpState(TrioValue)
TrioStarted(n) ==
    bumpState(enter(BallotProtocol(n, AllValid, QSet(Nodes))),
              TrioValue, FALSE)

InitTrio ==
    /\ node = [n \in Nodes |-> leave(TrioStarted(n))]
    /\ net = UNION {Range(TrioStarted(n).out) : n \in Nodes}

\* the latest envelope of node m, which node n has not seen yet
TrioLatest(n, m) ==
    /\ m # n
    /\ node[m].lastEmit.type # NoType
    /\ isNewerStatementFor(node[n], m, node[m].lastEmit)

TrioDeliver ==
    \E n \in Nodes, m \in Nodes :
        /\ TrioLatest(n, m)
        /\ ProcessEnvelope(n, node[m].lastEmit, TRUE)

\* a delivery that changes the state of the receiving node is possible
TrioPending ==
    \E n \in Nodes, m \in Nodes :
        /\ TrioLatest(n, m)
        /\ node[n].err = 0
        /\ leave(processEnvelope(enter(node[n]), node[m].lastEmit, FALSE))
              # node[n]

NextTrio == TrioDeliver

SpecTrio == InitTrio /\ [][NextTrio]_vars

FairTrio ==
    SpecTrio /\ ([]<>(~TrioPending) \/ []<><<TrioDeliver>>_vars)

(***************************************************************************)
(* SpecBlocked: the local node of Spec with a quorum set that requires    *)
(* every one of the three validators, so that the peer alone is           *)
(* v-blocking and no quorum forms without the silent third node.          *)
(***************************************************************************)
EveryValidator == [threshold |-> Cardinality(Nodes), validators |-> Nodes]

InitBlocked ==
    /\ node = [n \in Nodes |-> BallotProtocol(n, AllValid, EveryValidator)]
    /\ net = {}

NextBlocked ==
    \/ PeerEnvelope
    \/ LocalBump

SpecBlocked == InitBlocked /\ [][NextBlocked]_vars

(***************************************************************************)
(* SpecPair: the local node with the quorum set of SpecBlocked and two    *)
(* peers that send PREPARE statements without a commit.  A ballot one     *)
(* peer has prepared is accepted by the local node, and is ratified only  *)
(* once the other peer has prepared it too.                                *)
(***************************************************************************)
\* the ballots of the peers' statements: counter 1 with either value, and
\* one ballot of counter 2
PairBallots == Ballots \cup {SCPBallot(2, 1)}

PairPrepares ==
    {st \in {Prepare(n, b, p, pp, 0, 0) :
                n \in Nodes \ {LocalNodeID}, b \in PairBallots,
                p \in PairBallots \cup {NullBallot}, pp \in OptBallots} :
        isStatementSane(st, FALSE)}

PairEnvelope ==
    \E st \in PairPrepares : ProcessEnvelope(LocalNodeID, st, FALSE)

NextPair ==
    \/ PairEnvelope
    \/ LocalBump

SpecPair == InitBlocked /\ [][NextPair]_vars

(***************************************************************************)
(* Properties.  Local is the node that Spec and SpecMaybeValid drive; the  *)
(* calls it may receive in a state are applied to that state directly, so  *)
(* that what a call returns can be related to what it leaves behind.       *)
(***************************************************************************)
Local == node[LocalNodeID]

\* the phase and the ballot variables b, p, p', h, c
BallotState(s) == << s.phase, s.b, s.p, s.pp, s.h, s.c >>

\* what enter(s) and r differ in, M, timerExp and the results of the call
\* set aside
SameButEnvelopes(s, r) ==
    [r EXCEPT !.M = s.M, !.timerExp = s.timerExp, !.ret = "none",
              !.res = FALSE]
        = enter(s)

\* what processEnvelope leaves behind when the peer delivers st
Delivered(st) == processEnvelope(enter(Local), st, FALSE)

PhaseMonotonic ==
    \A n \in Nodes :
        /\ node[n].hist \in
              {<< SCP_PHASE_PREPARE >>,
               << SCP_PHASE_PREPARE, SCP_PHASE_CONFIRM >>,
               << SCP_PHASE_PREPARE, SCP_PHASE_CONFIRM,
                  SCP_PHASE_EXTERNALIZE >>}
        /\ node[n].phase = node[n].hist[Len(node[n].hist)]

PhaseWentAllTheWay == Local.phase = SCP_PHASE_EXTERNALIZE

\* C3: in phase EXTERNALIZE every call of processEnvelope, bumpState,
\* abandonBallot and ballotProtocolTimerExpired leaves the phase and b, p,
\* p', h, c as they are, and besides them nothing but the latest-envelope
\* map (and the count of timer expiries)
ExternalizeFrozen ==
    Local.phase = SCP_PHASE_EXTERNALIZE =>
        LET frozen(r) == /\ BallotState(r) = BallotState(Local)
                         /\ SameButEnvelopes(Local, r)
        IN  /\ \A st \in Deliveries : frozen(Delivered(st))
            /\ \A v \in Values, force \in BOOLEAN :
                   LET r == bumpState(enter(Local), v, force)
                   IN  frozen(r) /\ r.M = Local.M
            /\ \A k \in 0..MaxCounter :
                   LET r == abandonBallot(enter(Local), k)
                   IN  frozen(r) /\ r.M = Local.M
            /\ LET r == ballotProtocolTimerExpired(enter(Local))
               IN  frozen(r) /\ r.M = Local.M

\* in EXTERNALIZE, an envelope is still recorded
ExternalizeStillRecords ==
    /\ Local.phase = SCP_PHASE_EXTERNALIZE
    /\ \E st \in Deliveries : Delivered(st).M # Local.M

\* what processEnvelope checks before it looks at the phase
Acceptable(st) ==
    /\ isStatementSane(st, FALSE)
    /\ isNewerStatementFor(Local, st.node, st)
    /\ validateValues(Local, st) # kInvalidValue

\* C4: in phase EXTERNALIZE with commit value V, a sane, newer, value-valid
\* statement whose working ballot has another value is answered INVALID and
\* changes nothing; one whose working ballot has value V becomes its
\* sender's latest envelope and is answered VALID, with no advanceSlot
ExternalizeAbsorbs ==
    Local.phase = SCP_PHASE_EXTERNALIZE =>
        \A st \in Deliveries :
            Acceptable(st) =>
                IF getWorkingBallot(st).value # Local.c.value
                THEN Delivered(st) = [enter(Local) EXCEPT !.ret = INVALID]
                ELSE Delivered(st) =
                         [enter(Local) EXCEPT !.M[st.node] = st,
                                              !.ret = VALID]

ExternalizeAbsorbsBoth ==
    /\ Local.phase = SCP_PHASE_EXTERNALIZE
    /\ \E st \in Deliveries :
          /\ Acceptable(st)
          /\ getWorkingBallot(st).value # Local.c.value
          /\ Delivered(st).ret = INVALID
    /\ \E st \in Deliveries :
          /\ Acceptable(st)
          /\ getWorkingBallot(st).value = Local.c.value
          /\ Delivered(st).ret = VALID

\* a ballot as a key of the order: an unset ballot is below every set one
BallotKey(b) == IF b.set THEN << 1, b.counter, b.value >> ELSE << 0, 0, 0 >>

\* lexicographic order of two sequences of the same length
LexLess(x, y) ==
    \E i \in 1..Len(x) :
        /\ x[i] < y[i]
        /\ \A j \in 1..(i - 1) : x[j] = y[j]

PrepareKey(st) ==
    BallotKey(st.ballot) \o BallotKey(st.prepared)
        \o BallotKey(st.preparedPrime) \o << st.nH >>

ConfirmKey(st) == BallotKey(st.ballot) \o << st.nPrepared, st.nH >>

\* 'newer' as the ordering of statements is stated: by type, then by
\* (b, p, p', nH) for PREPAREs and by (b, nPrepared, nH) for CONFIRMs
StrictlyNewer(oldst, st) ==
    \/ oldst.type < st.type
    \/ /\ oldst.type = st.type
       /\ \/ /\ st.type = SCP_ST_PREPARE
             /\ LexLess(PrepareKey(oldst), PrepareKey(st))
          \/ /\ st.type = SCP_ST_CONFIRM
             /\ LexLess(ConfirmKey(oldst), ConfirmKey(st))

\* C5: processEnvelope answers INVALID to every statement that is not
\* strictly newer than the one recorded for its sender
StaleRejected ==
    \A st \in Deliveries :
        (Local.M[st.node].type # NoType
         /\ ~StrictlyNewer(Local.M[st.node], st))
            => Delivered(st).ret = INVALID

\* after PREPARE((2,V)), PREPARE((1,V)) of the same node is INVALID
StaleRejectedExample ==
    /\ Local.M[1] =
          Prepare(1, SCPBallot(2, 1), NullBallot, NullBallot, 0, 0)
    /\ Delivered(Prepare(1, SCPBallot(1, 1), NullBallot, NullBallot, 0, 0)).ret
          = INVALID

\* C6: when processEnvelope answers INVALID, the phase, b, p, p', h, c, the
\* latest-envelope map, the heardFromQuorum flag and the fully-validated
\* flag are as they were before the call
InvalidChangesNothing ==
    \A st \in Deliveries :
        LET r == Delivered(st) IN
        r.ret = INVALID =>
            /\ BallotState(r) = BallotState(Local)
            /\ r.M = Local.M
            /\ r.heard = Local.heard
            /\ r.fv = Local.fv

\* INVALID for each of the four reasons, the last one on a statement whose
\* value would have cleared the fully-validated flag
InvalidForEachReason ==
    /\ Local.phase = SCP_PHASE_EXTERNALIZE
    /\ Local.fv
    /\ \E st \in Deliveries :
          /\ Acceptable(st)
          /\ Local.vl[st.ballot.value] = kMaybeValidValue
          /\ Delivered(st).ret = INVALID
    /\ \E st \in Deliveries :
          ~isStatementSane(st, FALSE) /\ Delivered(st).ret = INVALID
    /\ \E st \in Deliveries :
          /\ isStatementSane(st, FALSE)
          /\ ~isNewerStatementFor(Local, st.node, st)
          /\ Delivered(st).ret = INVALID
    /\ \E st \in Deliveries :
          /\ isStatementSane(st, FALSE)
          /\ isNewerStatementFor(Local, st.node, st)
          /\ validateValues(Local, st) = kInvalidValue
          /\ Delivered(st).ret = INVALID

HighBelowCurrent ==
    /\ Local.h.set
          => /\ Local.b.set
             /\ compareBallots(Local.h, Local.b) <= 0
             /\ Local.h.value = Local.b.value
    /\ "checkInvariants: high" \notin Local.af
    /\ "checkInvariants: commit high" \notin Local.af

HighStrictlyBelowCurrent ==
    Local.h.set /\ Local.b.set /\ compareBallots(Local.h, Local.b) < 0

\* C9: when a call has returned, and wherever checkInvariants ran, c set
\* means h set, c <= h and c.value = h.value
CommitBelowHigh ==
    /\ Local.c.set
          => /\ Local.h.set
             /\ compareBallots(Local.c, Local.h) <= 0
             /\ Local.c.value = Local.h.value
    /\ "checkInvariants: commit" \notin Local.af

CommitStrictlyBelowHigh ==
    Local.c.set /\ Local.h.set /\ compareBallots(Local.c, Local.h) < 0

\* C10: when p and p' are both set, p' < p and p'.value # p.value
PreparedPrimeBelowPrepared ==
    /\ (Local.p.set /\ Local.pp.set)
          => /\ compareBallots(Local.pp, Local.p) < 0
             /\ Local.pp.value # Local.p.value
    /\ "checkInvariants: prepared" \notin Local.af

BothPrepared == Local.p.set /\ Local.pp.set

\* C11: when a call has returned, and wherever checkInvariants ran, b set
\* means b.counter # 0
CurrentCounterNonZero ==
    /\ Local.b.set => Local.b.counter # 0
    /\ "checkInvariants: current" \notin Local.af

\* C12 as stated: no call leaves b unset or below the b it started from
CurrentNeverLowered ==
    [][Local.b.set =>
         /\ Local.b.set'
         /\ compareBallots(Local.b, Local.b') <= 0
         /\ Local.b.counter <= Local.b.counter']_vars

\* C12: b is never unset; every assignment made with the monotonicity check
\* on is at or above the previous b; a call lowers b only when it takes the
\* node out of phase PREPARE (setAcceptCommit's unchecked bumpToBallot(h))
CurrentLoweredOnlyLeavingPrepare ==
    [][/\ Local.b.set => Local.b.set'
       /\ "bumpToBallot: order" \notin Local.af'
       /\ "updateCurrentValue" \notin Local.af'
       /\ (Local.b.set /\ compareBallots(Local.b', Local.b) < 0)
            => /\ Local.phase = SCP_PHASE_PREPARE
               /\ Local.phase' # SCP_PHASE_PREPARE]_vars

\* a delivery that lowers the counter of b
CurrentLoweredWitness ==
    \E st \in Deliveries :
        /\ Local.b.set
        /\ Delivered(st).err = 0
        /\ Delivered(st).b.counter < Local.b.counter
        /\ Delivered(st).phase # SCP_PHASE_PREPARE

\* C13: once p is set no call unsets it, and a call that changes p leaves it
\* strictly above the p it started from
PreparedOnlyRaised ==
    [][Local.p.set =>
         /\ Local.p.set'
         /\ (Local.p' # Local.p => compareBallots(Local.p, Local.p') < 0)]_vars

\* a delivery that replaces a set p
PreparedRaisedWitness ==
    \E st \in Deliveries :
        /\ Local.p.set
        /\ Delivered(st).err = 0
        /\ Delivered(st).p # Local.p

\* C14 as stated: once h is set no call leaves it unset or below the h it
\* started from
HighNeverLowered ==
    [][Local.h.set =>
         /\ Local.h.set'
         /\ compareBallots(Local.h, Local.h') <= 0]_vars

\* C14: a call leaves h unset or below the h it started from only if it
\* changes the phase (setAcceptCommit and setConfirmCommit store the h of
\* the commit they act on) or leaves b at another value than that of h
\* (bumpToBallot resets an h that is incompatible with the new b)
HighLoweredOnlyOnPhaseOrValueChange ==
    [][(/\ Local.h.set
        /\ (~Local.h.set' \/ compareBallots(Local.h', Local.h) < 0))
          => \/ Local.phase' # Local.phase
             \/ Local.b'.value # Local.h.value]_vars

\* a delivery that lowers the counter of h
HighLoweredWitness ==
    \E st \in Deliveries :
        /\ Local.h.set
        /\ Delivered(st).err = 0
        /\ Delivered(st).h.set
        /\ Delivered(st).h.counter < Local.h.counter

\* a nesting level at which no cap and no top-level step interferes
ShallowLevel == 2

\* what processEnvelope leaves behind when st arrives ShallowLevel deep
DeliveredShallow(st) ==
    processEnvelope([enter(Local) EXCEPT !.level = ShallowLevel], st, FALSE)

BeforeBump(st) ==
    attemptConfirmCommit(
        attemptAcceptCommit(
            attemptConfirmPrepared(
                attemptAcceptPrepared(
                    [recordEnvelope(enter(Local), st)
                       EXCEPT !.level = 1, !.adv = 1],
                    st),
                st),
            st),
        st)

\* the ballot counters of the latest envelopes
EnvelopeCounters(s) ==
    {statementBallotCounter(s.M[n]) :
       n \in {m \in Nodes : s.M[m].type # NoType}}

\* the counter of b, 0 when b is unset
CurrentCounter(s) == IF s.b.set THEN s.b.counter ELSE 0

\* r being attemptBump(s): if it bumped, the counter of b is above what it
\* was, at a counter of the latest envelopes
BumpRaises(s, r) ==
    r.res =>
        /\ CurrentCounter(r) > CurrentCounter(s)
        /\ CurrentCounter(r) \in EnvelopeCounters(s)

\* C16: processEnvelope returns VALID or INVALID with every nested
\* advanceSlot left, and each turn of the do-while that bumps raises the
\* counter of b to a counter of the latest envelopes
ProcessEnvelopeTerminates ==
    \A st \in Deliveries :
        LET r == Delivered(st)
            s0 == BeforeBump(st)
            s1 == attemptBump(s0)
        IN  /\ r.ret \in {VALID, INVALID}
            /\ r.err = 0
            /\ r.level = 0
            /\ r.adv < MAX_ADVANCE_SLOT_RECURSION
            /\ r.ret = VALID /\ Local.phase # SCP_PHASE_EXTERNALIZE
                 => /\ BumpRaises(s0, s1)
                    /\ BumpRaises(s1, attemptBump(s1))

\* an envelope for which the do-while bumps, with nested advanceSlot calls
BumpLoopWitness ==
    \E st \in Deliveries :
        /\ Delivered(st).ret = VALID
        /\ Local.phase # SCP_PHASE_EXTERNALIZE
        /\ attemptBump(BeforeBump(st)).res
        /\ ~attemptBump(attemptBump(BeforeBump(st))).res
        /\ Delivered(st).adv > 2

\* what each top-level call the local node may receive leaves behind
TopLevelCalls ==
    {Delivered(st) : st \in Deliveries}
        \cup {bumpState(enter(Local), v, force) :
                v \in Values, force \in BOOLEAN}
        \cup {abandonBallot(enter(Local), k) :
                k \in {0} \cup {j \in 1..MaxCounter :
                                  Local.b.set => Local.b.counter < j}}
        \cup {ballotProtocolTimerExpired(stopBallotProtocolTimer(enter(s))) :
                s \in {x \in {Local} : x.timer}}

\* C17: a call hands an envelope to emitEnvelope only at recursion depth 0,
\* with the slot fully validated, and only an envelope that differs from
\* the last one handed over; a slot that is not fully validated emits
\* nothing
EmitOnlyWhenAllowed ==
    /\ \A r \in TopLevelCalls :
          /\ r.out # << >> =>
                /\ r.fv
                /\ r.level = 0
                /\ r.out[1] # Local.lastEmit
                /\ r.lastEmit = r.out[Len(r.out)]
          /\ \A i \in 1..(Len(r.out) - 1) : r.out[i] # r.out[i + 1]
          /\ r.out = << >> => r.lastEmit = Local.lastEmit
          /\ ~r.fv => r.out = << >>
    /\ \A st \in Deliveries : DeliveredShallow(st).out = << >>

\* a slot that is no longer fully validated, with an envelope emitted
\* before: a delivery advances the ballot state and the own statement, and
\* nothing is emitted
UnvalidatedAdvancesWitness ==
    /\ ~Local.fv
    /\ Local.lastEmit.type # NoType
    /\ \E st \in Deliveries :
          /\ BallotState(Delivered(st)) # BallotState(Local)
          /\ Delivered(st).lastEnv # Local.lastEnv
          /\ Delivered(st).lastEnv # Local.lastEmit
          /\ Delivered(st).out = << >>

\* C18: no top-level call hands more than one envelope to emitEnvelope
AtMostOneEmit ==
    \A r \in TopLevelCalls : Len(r.out) <= 1

\* a call with more than three advanceSlot invocations, nested or in the
\* do-while, that hands over one envelope
BatchedEmitWitness ==
    \E r \in TopLevelCalls :
        /\ r.adv > 3
        /\ Len(r.out) = 1
        /\ r.out[1] = r.lastEnv

\* C19: no envelope handed to emitEnvelope is a PREPARE statement with
\* ballot counter 0
NoZeroCounterPrepareEmitted ==
    \A r \in TopLevelCalls :
        \A i \in 1..Len(r.out) :
            r.out[i].type = SCP_ST_PREPARE => r.out[i].ballot.counter # 0

\* before the do-while the own latest statement, re-ingested, is a PREPARE
\* with ballot counter 0, and the call hands over a later statement
ZeroCounterNotEmittedWitness ==
    \E st \in Deliveries :
        /\ BeforeBump(st).M[LocalNodeID].type = SCP_ST_PREPARE
        /\ BeforeBump(st).M[LocalNodeID].ballot.counter = 0
        /\ Len(Delivered(st).out) = 1
        /\ Delivered(st).out[1] # BeforeBump(st).M[LocalNodeID]

\* phase PREPARE, b set, a quorum heard from, the timer armed, and no
\* latest statement of a peer at a counter above that of b
TimerPrecondition ==
    /\ Local.phase = SCP_PHASE_PREPARE
    /\ Local.b.set
    /\ Local.heard
    /\ Local.timer
    /\ \A m \in Nodes \ {LocalNodeID} :
          Local.M[m].type # NoType
             => statementBallotCounter(Local.M[m]) <= Local.b.counter

\* what the timer callback leaves behind
TimerFired ==
    ballotProtocolTimerExpired(stopBallotProtocolTimer(enter(Local)))

\* the local node and the peers whose latest statement is not a PREPARE:
\* checkHeardFromQuorum counts them whatever the counter of b
CountedAtAnyCounter ==
    {LocalNodeID}
        \cup {m \in Senders(Local) : Local.M[m].type # SCP_ST_PREPARE}

\* C20 as stated: the timer leaves the counter of b one higher, the expiry
\* counted, heardFromQuorum false and the timer disarmed
TimerExpiryClearsHeard ==
    TimerPrecondition =>
        /\ TimerFired.timerExp = Local.timerExp + 1
        /\ TimerFired.b.counter = Local.b.counter + 1
        /\ ~TimerFired.heard
        /\ ~TimerFired.timer

\* C20: the timer leaves the counter of b one higher and the expiry
\* counted; heardFromQuorum is false and the timer disarmed unless the
\* local node and the peers whose latest statement is a CONFIRM or an
\* EXTERNALIZE form a quorum, and then heardFromQuorum is true and the
\* timer armed again
TimerExpiryBumps ==
    TimerPrecondition =>
        /\ TimerFired.timerExp = Local.timerExp + 1
        /\ TimerFired.b.counter = Local.b.counter + 1
        /\ TimerFired.phase = SCP_PHASE_PREPARE
        /\ TimerFired.heard = isQuorum(Local, CountedAtAnyCounter)
        /\ TimerFired.timer = TimerFired.heard

\* the peer's latest statement is a PREPARE at the counter of b: the timer
\* bumps the counter, and no quorum is heard from at the new counter
TimerExpiryWitness ==
    /\ TimerPrecondition
    /\ Local.M[1].type = SCP_ST_PREPARE
    /\ Local.M[1].ballot.counter = Local.b.counter
    /\ TimerFired.b.counter = Local.b.counter + 1
    /\ ~TimerFired.heard
    /\ ~TimerFired.timer

\* the counters abandonBallot is called with: 0, or like its caller
\* attemptBump a counter above that of b
AbandonCounters ==
    {0} \cup {j \in 1..MaxCounter : Local.b.set => Local.b.counter < j}

\* the counter abandonBallot(k) moves to
AbandonTarget(k) ==
    IF k # 0 THEN k
    ELSE IF Local.b.set THEN Inc32(Local.b.counter)
    ELSE 1

\* b as abandonBallot(k) assigns it, before the own statement is emitted
AbandonBumped(k) ==
    updateCurrentValue(
        enter(Local),
        bumpStateBallot(Local, abandonBallotValue(Local), AbandonTarget(k)))

\* what abandonBallot(k) leaves behind
Abandoned(k) == abandonBallot(enter(Local), k)

\* C21 as stated: the new ballot has the counter asked for and the value
\* of the current ballot, the composite candidate being used only when
\* there is no current ballot
AbandonKeepsCurrentValue ==
    \A k \in AbandonCounters :
        Abandoned(k).res =>
            /\ AbandonBumped(k).b.counter = AbandonTarget(k)
            /\ AbandonBumped(k).b.value
                 = (IF Local.b.set THEN Local.b.value ELSE Local.cc)
            /\ Abandoned(k).b.value = AbandonBumped(k).b.value

\* C21: abandonBallot assigns b the counter asked for and the value
\* override if there is one, else the latest composite candidate if there
\* is one, else the value of the current ballot; when it returns, b has
\* that value and a counter not below the one assigned
AbandonValueOrder ==
    \A k \in AbandonCounters :
        /\ (Local.cc # 0 \/ Local.b.set)
              => Abandoned(k).res = AbandonBumped(k).res
        /\ Abandoned(k).res =>
              /\ AbandonBumped(k).b
                   = SCPBallot(AbandonTarget(k),
                               IF Local.vo # 0 THEN Local.vo
                               ELSE IF Local.cc # 0 THEN Local.cc
                               ELSE Local.b.value)
              /\ Abandoned(k).b.value = AbandonBumped(k).b.value
              /\ Abandoned(k).b.counter >= AbandonTarget(k)
        /\ (Local.cc = 0 /\ ~Local.b.set) => ~Abandoned(k).res

\* with no value override, a composite candidate other than the value of
\* the current ballot: abandonBallot moves to the composite candidate
AbandonCandidateWitness ==
    /\ Local.b.set
    /\ Local.vo = 0
    /\ Local.cc # 0
    /\ Local.cc # Local.b.value
    /\ \E k \in AbandonCounters :
          /\ k # 0
          /\ Abandoned(k).res
          /\ Abandoned(k).b = SCPBallot(k, Local.cc)
    /\ Abandoned(0).res
    /\ Abandoned(0).b = SCPBallot(Inc32(Local.b.counter), Local.cc)

\* the phases in which attemptBump acts
CanBump(s) == s.phase = SCP_PHASE_PREPARE \/ s.phase = SCP_PHASE_CONFIRM

\* C22 as stated: when processEnvelope has returned in phase PREPARE or
\* CONFIRM, no v-blocking set is strictly ahead of the counter of b
NeverBehindVBlocking ==
    \A st \in BumpDeliveries :
        (Delivered(st).ret = VALID /\ CanBump(Delivered(st)))
            => ~hasVBlockingSubsetStrictlyAheadOf(
                   Delivered(st), CurrentCounter(Delivered(st)))

\* C22: a node that has a current ballot or a composite candidate and
\* finds a v-blocking set ahead of it at the end of the outermost
\* advanceSlot moves to the smallest counter of the latest envelopes that
\* no v-blocking set is ahead of, and is behind no v-blocking set when
\* processEnvelope returns; a node with neither stays where it is
BumpsToSmallestFreeCounter ==
    \A st \in BumpDeliveries :
        LET r == Delivered(st)
            s0 == BeforeBump(st)
            s1 == attemptBump(s0)
        IN  (/\ r.ret = VALID
             /\ CanBump(s0)
             /\ hasVBlockingSubsetStrictlyAheadOf(s0, CurrentCounter(s0)))
              => IF s0.b.set \/ s0.cc # 0
                 THEN /\ s1.res
                      /\ CurrentCounter(s1) \in EnvelopeCounters(s0)
                      /\ ~hasVBlockingSubsetStrictlyAheadOf(
                             s0, CurrentCounter(s1))
                      /\ \A m \in EnvelopeCounters(s0) :
                            (CurrentCounter(s0) < m /\ m < CurrentCounter(s1))
                               => hasVBlockingSubsetStrictlyAheadOf(s0, m)
                      /\ CurrentCounter(r) = CurrentCounter(s1)
                      /\ ~hasVBlockingSubsetStrictlyAheadOf(
                             r, CurrentCounter(r))
                 ELSE /\ ~s1.res
                      /\ ~r.b.set

\* the two peers are ahead at different counters: the node moves to the
\* lower of them, more than one counter above its own
BumpSkipsWitness ==
    \E st \in BumpDeliveries :
        /\ Local.b.set
        /\ Delivered(st).ret = VALID
        /\ attemptBump(BeforeBump(st)).res
        /\ Delivered(st).b.counter > Local.b.counter + 1
        /\ \E m \in EnvelopeCounters(BeforeBump(st)) :
              m > Delivered(st).b.counter

\* the latest statements at the counter of b or above, a CONFIRM or an
\* EXTERNALIZE counting whatever its counter, contain a quorum
HeardQuorum(s) ==
    isQuorum(s, {n \in Senders(s) :
                   s.M[n].type = SCP_ST_PREPARE
                      => s.b.counter <= s.M[n].ballot.counter})

\* the states checkHeardFromQuorum is looked at in: the state at rest and
\* the state at the end of the outermost advanceSlot of each delivery
HeardInputs ==
    {s \in {Local} \cup {BeforeBump(st) : st \in Deliveries} :
        s.err = 0 /\ s.b.set}

\* C23: checkHeardFromQuorum arms the timer, for the counter of b, exactly
\* when the quorum is heard from while heardFromQuorum was false and the
\* phase is PREPARE or CONFIRM; with heardFromQuorum already true the timer
\* is left as it is; without the quorum the flag is cleared and the timer
\* cancelled
HeardFromQuorumArmsTimer ==
    \A s \in HeardInputs :
        LET r == checkHeardFromQuorum(s)
        IN  /\ r = [s EXCEPT !.heard = r.heard, !.timer = r.timer,
                             !.timerN = r.timerN, !.arms = r.arms]
            /\ r.heard = HeardQuorum(s)
            /\ r.arms = IF HeardQuorum(s) /\ ~s.heard /\ CanBump(s)
                        THEN s.arms + 1 ELSE s.arms
            /\ (HeardQuorum(s) /\ ~s.heard /\ CanBump(s))
                  => (r.timer /\ r.timerN = s.b.counter)
            /\ (HeardQuorum(s) /\ s.heard /\ CanBump(s))
                  => (r.timer = s.timer /\ r.timerN = s.timerN)
            /\ (HeardQuorum(s) /\ ~CanBump(s)) => ~r.timer
            /\ ~HeardQuorum(s) => ~r.timer

\* the quorum is heard from with heardFromQuorum already true, and the
\* timer is left as it is
HeardAgainWitness ==
    \E s \in HeardInputs :
        /\ HeardQuorum(s)
        /\ s.heard
        /\ s.timer
        /\ s.phase = SCP_PHASE_PREPARE
        /\ checkHeardFromQuorum(s).arms = s.arms

\* C24: once a top-level call has returned, an armed timer comes with
\* heardFromQuorum true and phase PREPARE or CONFIRM; the call that enters
\* EXTERNALIZE returns with the timer cancelled, and no later call arms it
TimerArmedOnlyWhileHeard ==
    /\ Local.timer => (Local.heard /\ CanBump(Local))
    /\ \A r \in TopLevelCalls :
          /\ r.timer => (r.heard /\ CanBump(r))
          /\ r.phase = SCP_PHASE_EXTERNALIZE => ~r.timer
          /\ Local.phase = SCP_PHASE_EXTERNALIZE => r.arms = 0

\* the timer is armed and a delivery takes the node to EXTERNALIZE
TimerCancelledWitness ==
    /\ Local.timer
    /\ \E st \in Deliveries :
          /\ Delivered(st).phase = SCP_PHASE_EXTERNALIZE
          /\ ~Delivered(st).timer

\* the statement st with a quorum set hash that does not resolve
Unresolved(st) == [st EXCEPT !.qh = 0]

\* C25 as stated: a sane, newer statement whose quorum set does not resolve
\* is not rejected, and is kept in the latest-envelope map
UnresolvedRetained ==
    \A st \in SanePeerStatements(1) :
        isNewerStatementFor(Local, 1, st)
            => /\ Delivered(Unresolved(st)).ret = VALID
               /\ Delivered(Unresolved(st)).M[1] = Unresolved(st)

\* C25: processEnvelope rejects a statement whose quorum set does not
\* resolve and changes nothing: the latest statement of the sender stays
\* in the map, and the statement delivered once its quorum set resolves is
\* processed as if the rejected one had never been delivered
UnresolvedRejected ==
    \A st \in SanePeerStatements(1) :
        /\ Delivered(Unresolved(st)) = [enter(Local) EXCEPT !.ret = INVALID]
        /\ processEnvelope(enter(leave(Delivered(Unresolved(st)))), st, FALSE)
              = Delivered(st)

\* the peer has a latest statement, and submits a newer one whose quorum
\* set does not resolve
UnresolvedWitness ==
    \E st \in Deliveries :
        /\ st.qh = 0
        /\ Local.M[1].type # NoType
        /\ isNewerStatementFor(Local, 1, st)
        /\ validateValues(Local, st) # kInvalidValue
        /\ Delivered(st).ret = INVALID
        /\ Delivered(st).M[1] = Local.M[1]

\* st passes the sanity and newer-than checks of processEnvelope, and
\* validateValues finds its values maybe valid
MaybeValidDelivery(st) ==
    /\ isStatementSane(st, FALSE)
    /\ isNewerStatementFor(Local, st.node, st)
    /\ validateValues(Local, st) = kMaybeValidValue

\* C26 as stated: in every phase, such an envelope leaves the slot not
\* fully validated
MaybeValidAlwaysMarks ==
    \A st \in Deliveries : MaybeValidDelivery(st) => ~Delivered(st).fv

\* C26: in phase PREPARE or CONFIRM such an envelope leaves the slot not
\* fully validated, is recorded and answered VALID; in phase EXTERNALIZE
\* the slot's flag is left as it is, and the envelope is recorded and
\* answered VALID only when its working ballot carries the value of c
MaybeValidMarksBeforeExternalize ==
    \A st \in Deliveries :
        MaybeValidDelivery(st) =>
            IF Local.phase # SCP_PHASE_EXTERNALIZE
            THEN /\ ~Delivered(st).fv
                 /\ Delivered(st).ret = VALID
                 /\ Delivered(st).M[st.node] = st
            ELSE /\ Delivered(st).fv = Local.fv
                 /\ Delivered(st).ret
                       = IF Local.c.value = getWorkingBallot(st).value
                         THEN VALID ELSE INVALID
                 /\ Delivered(st).M[st.node]
                       = IF Local.c.value = getWorkingBallot(st).value
                         THEN st ELSE Local.M[st.node]

\* a fully validated slot in EXTERNALIZE receives an envelope with a maybe
\* valid value and stays fully validated
MaybeValidInExternalizeWitness ==
    /\ Local.phase = SCP_PHASE_EXTERNALIZE
    /\ Local.fv
    /\ \E st \in Deliveries :
          /\ MaybeValidDelivery(st)
          /\ Delivered(st).ret = INVALID
          /\ Delivered(st).fv

\* the ballot the three nodes start on, and the ballot of the same value
\* with the highest counter
TrioBallot == SCPBallot(1, TrioValue)
TrioTopBallot == SCPBallot(UINT32_MAX, TrioValue)

AllExternalized ==
    \A n \in Nodes : node[n].phase = SCP_PHASE_EXTERNALIZE

BeforeAccept(st) ==
    [recordEnvelope(enter(Local), st) EXCEPT !.level = 1, !.adv = 1]

\* the deliveries that reach advanceSlot
AdvancingDeliveries ==
    {st \in Deliveries :
        Local.phase # SCP_PHASE_EXTERNALIZE /\ Delivered(st).ret = VALID}

\* federated accept of 'ballot is prepared' over the latest envelopes of s
AcceptedPrepared(s, ballot) ==
    federatedAccept(s,
        {n \in Senders(s) : votesPrepare(ballot, s.M[n])},
        {n \in Senders(s) : hasPreparedBallot(ballot, s.M[n])})

\* ballot is at or below p', or below p and compatible with it
CoveredByPrepared(s, ballot) ==
    \/ (s.pp.set /\ compareBallots(ballot, s.pp) <= 0)
    \/ (s.p.set /\ areBallotsLessAndCompatible(ballot, s.p))

\* the candidates of hint that are accepted as prepared and not covered
UncoveredAccepted(s, hint) ==
    {x \in getPrepareCandidates(s, hint) :
        AcceptedPrepared(s, x) /\ ~CoveredByPrepared(s, x)}

\* r being attemptAcceptPrepared(s, hint): the highest ballot of A, if any,
\* has become p or p', nothing else has, and p and p' are unchanged if A is
\* empty
AdoptsHighestOf(A, s, r) ==
    IF A = {}
    THEN ~r.res /\ r.p = s.p /\ r.pp = s.pp
    ELSE /\ r.res
         /\ MaxBallot(A) \in {setPrepared(s, MaxBallot(A)).p,
                              setPrepared(s, MaxBallot(A)).pp}
         /\ {setPrepared(s, MaxBallot(A)).p, setPrepared(s, MaxBallot(A)).pp}
               \subseteq {s.p, s.pp, MaxBallot(A)}
         /\ BallotState(r) = BallotState(setAcceptPrepared(s, MaxBallot(A)))

\* C28 as stated: attemptAcceptPrepared adopts the highest candidate that
\* is accepted as prepared and not covered by p or p', in either phase
AcceptPreparedAdoptsHighestUncovered ==
    \A st \in AdvancingDeliveries :
        AdoptsHighestOf(UncoveredAccepted(BeforeAccept(st), st),
                        BeforeAccept(st),
                        attemptAcceptPrepared(BeforeAccept(st), st))

\* C28: attemptAcceptPrepared adopts as p or p' the highest candidate that
\* is accepted as prepared over the latest envelopes and not covered by p
\* or p', and in phase CONFIRM the highest such candidate that is also
\* above p and compatible with it; it changes p and p' in no other way
AcceptPreparedAdoptsHighest ==
    \A st \in AdvancingDeliveries :
        AdoptsHighestOf(
            {x \in UncoveredAccepted(BeforeAccept(st), st) :
                Local.phase = SCP_PHASE_CONFIRM
                   => areBallotsLessAndCompatible(Local.p, x)},
            BeforeAccept(st),
            attemptAcceptPrepared(BeforeAccept(st), st))

\* two candidates are accepted and not covered, and the higher is adopted
AcceptPreparedWitness ==
    \E st \in AdvancingDeliveries :
        /\ \E x, y \in UncoveredAccepted(BeforeAccept(st), st) : x # y
        /\ attemptAcceptPrepared(BeforeAccept(st), st).res

\* C29: the assertion of attemptAcceptPrepared, that a candidate considered
\* in phase CONFIRM is compatible with c, never fails, and in phase CONFIRM
\* p is compatible with c
PreparedCompatibleWithCommit ==
    /\ "attemptAcceptPrepared" \notin Local.af
    /\ (Local.phase = SCP_PHASE_CONFIRM /\ Local.c.set)
          => (Local.p.set /\ areBallotsCompatible(Local.p, Local.c))

\* C30: c is cleared by setAcceptPrepared only in phase PREPARE: the
\* assertion guarding the reset never fails, and c stays set in phase CONFIRM
CommitClearedOnlyInPrepare ==
    /\ "setAcceptPrepared" \notin Local.af
    /\ Local.phase = SCP_PHASE_CONFIRM => Local.c.set

\* the peer's envelope st is recorded, attemptAcceptPrepared has returned
\* and advanceSlot is about to call attemptConfirmPrepared
BeforeConfirmPrepared(st) == attemptAcceptPrepared(BeforeAccept(st), st)

\* the deliveries of SpecPair that reach advanceSlot, each with the state
\* on which attemptConfirmPrepared is called
ConfirmPreparedCalls ==
    {<< BeforeConfirmPrepared(st), st >> :
        st \in {x \in PairPrepares :
                  /\ Local.phase # SCP_PHASE_EXTERNALIZE
                  /\ Delivered(x).ret = VALID
                  /\ BeforeConfirmPrepared(x).err = 0}}

\* a quorum's latest statements all have ballot as accepted prepared
RatifiedPrepared(s, ballot) ==
    federatedRatify(s,
        {n \in Senders(s) : hasPreparedBallot(ballot, s.M[n])})

\* the candidates of hint above h that a quorum has ratified as prepared
RatifiedAboveHigh(s, hint) ==
    {x \in getPrepareCandidates(s, hint) :
        /\ RatifiedPrepared(s, x)
        /\ s.h.set => compareBallots(x, s.h) > 0}

\* attemptConfirmPrepared(s, hint) is setConfirmPrepared for the highest
\* ballot of RatifiedAboveHigh and some c, and does nothing if there is none
\* or the node is not in phase PREPARE with p set
ConfirmsHighest(s, hint) ==
    IF \/ s.phase # SCP_PHASE_PREPARE \/ ~s.p.set
       \/ RatifiedAboveHigh(s, hint) = {}
    THEN attemptConfirmPrepared(s, hint) = [s EXCEPT !.res = FALSE]
    ELSE \E newC \in getPrepareCandidates(s, hint) \cup {DefaultBallot} :
            attemptConfirmPrepared(s, hint)
               = setConfirmPrepared(s, newC,
                                    MaxBallot(RatifiedAboveHigh(s, hint)))

\* s is in phase PREPARE with p set, newH is the highest ratified candidate
\* above h and it is incompatible with b
IncompatibleHigh(s, hint, newH) ==
    /\ s.phase = SCP_PHASE_PREPARE /\ s.p.set
    /\ RatifiedAboveHigh(s, hint) # {}
    /\ newH = MaxBallot(RatifiedAboveHigh(s, hint))
    /\ s.b.set /\ ~areBallotsCompatible(s.b, newH)

\* s is in phase PREPARE with p set, newH is the highest ratified candidate
\* above h and it is compatible with b, or there is no b
CompatibleHigh(s, hint, newH) ==
    /\ s.phase = SCP_PHASE_PREPARE /\ s.p.set
    /\ RatifiedAboveHigh(s, hint) # {}
    /\ newH = MaxBallot(RatifiedAboveHigh(s, hint))
    /\ ~s.b.set \/ areBallotsCompatible(s.b, newH)

\* C31 as stated: when the new h is incompatible with b, h and c are left
\* as they were and b is bumped to it when it is greater than b
ConfirmPreparedKeepsHighOnIncompatible ==
    \A x \in ConfirmPreparedCalls :
        \A newH \in getPrepareCandidates(x[1], x[2]) :
            IncompatibleHigh(x[1], x[2], newH) =>
                LET u == confirmPreparedUpdated(x[1], DefaultBallot, newH)
                IN  /\ u.h = x[1].h /\ u.c = x[1].c
                    /\ u.b = IF compareBallots(newH, x[1].b) > 0 THEN newH
                             ELSE x[1].b

\* C31: attemptConfirmPrepared acts only in phase PREPARE with p set; the
\* highest candidate above h that a quorum has ratified as prepared becomes
\* h (and b, when b is unset or below it) if it is compatible with b; if it
\* is incompatible with b and above it, b is bumped to it and h and c are
\* cleared; if it is incompatible with b and below it, b, h and c stay
ConfirmPreparedRaisesHigh ==
    \A x \in ConfirmPreparedCalls :
        /\ ConfirmsHighest(x[1], x[2])
        /\ \A newH \in getPrepareCandidates(x[1], x[2]) :
              LET u == confirmPreparedUpdated(x[1], DefaultBallot, newH)
              IN  /\ CompatibleHigh(x[1], x[2], newH) =>
                        /\ u.h = newH
                        /\ u.b = IF x[1].b.set
                                    /\ compareBallots(x[1].b, newH) >= 0
                                 THEN x[1].b ELSE newH
                  /\ IncompatibleHigh(x[1], x[2], newH) =>
                        IF compareBallots(newH, x[1].b) > 0
                        THEN u.b = newH /\ ~u.h.set /\ ~u.c.set
                        ELSE u.b = x[1].b /\ u.h = x[1].h /\ u.c = x[1].c

\* a ratified candidate above a set h is incompatible with b and above it
ConfirmPreparedIncompatibleWitness ==
    \E x \in ConfirmPreparedCalls :
        \E newH \in getPrepareCandidates(x[1], x[2]) :
            /\ IncompatibleHigh(x[1], x[2], newH)
            /\ compareBallots(newH, x[1].b) > 0
            /\ x[1].h.set
            /\ attemptConfirmPrepared(x[1], x[2]).res

\* the lowest ballot of a non-empty set of ballots
MinBallot(S) == CHOOSE x \in S : \A y \in S : compareBallots(x, y) <= 0

\* the candidates of hint at or below newH and compatible with it, and not
\* below the current ballot
CommitCandidates(s, hint, newH) ==
    {x \in getPrepareCandidates(s, hint) :
        /\ areBallotsLessAndCompatible(x, newH)
        /\ s.b.set => compareBallots(x, s.b) >= 0}

\* the unbroken downward run from newH of the commit candidates that a
\* quorum has ratified as prepared
RatifiedRun(s, hint, newH) ==
    {x \in CommitCandidates(s, hint, newH) :
        \A y \in CommitCandidates(s, hint, newH) :
            compareBallots(x, y) <= 0 => RatifiedPrepared(s, y)}

\* the conditions under which attemptConfirmPrepared looks for a new c
MayCommit(s, newH) ==
    /\ ~s.c.set
    /\ ~(s.p.set /\ areBallotsLessAndIncompatible(newH, s.p))
    /\ ~(s.pp.set /\ areBallotsLessAndIncompatible(newH, s.pp))

\* the new c that attemptConfirmPrepared passes to setConfirmPrepared
LowestOfRun(s, hint, newH) ==
    IF MayCommit(s, newH) /\ RatifiedRun(s, hint, newH) # {}
    THEN MinBallot(RatifiedRun(s, hint, newH))
    ELSE DefaultBallot

\* C32: confirm-prepared changes c only when c is unset and the new h is
\* not less than and incompatible with p or p'; the c it sets is the lowest
\* ballot of the unbroken downward run, from the new h, of ratified
\* candidates compatible with h and not below b, so that b <= c <= h and c
\* has the value of h
ConfirmPreparedSetsLowestCommit ==
    \A x \in ConfirmPreparedCalls :
        \A newH \in getPrepareCandidates(x[1], x[2]) :
            (CompatibleHigh(x[1], x[2], newH)
               \/ IncompatibleHigh(x[1], x[2], newH)) =>
                LET s == x[1]
                    newC == LowestOfRun(s, x[2], newH)
                    u == confirmPreparedUpdated(s, newC, newH)
                IN  /\ attemptConfirmPrepared(s, x[2])
                         = setConfirmPrepared(s, newC, newH)
                    /\ (u.c.set /\ u.c # s.c) =>
                          /\ MayCommit(s, newH)
                          /\ u.c = MinBallot(RatifiedRun(s, x[2], newH))
                          /\ u.h = newH
                          /\ s.b.set => compareBallots(s.b, u.c) <= 0
                          /\ areBallotsLessAndCompatible(u.c, u.h)

\* confirm-prepared sets a c that is below the new h
ConfirmPreparedCommitWitness ==
    \E x \in ConfirmPreparedCalls :
        \E newH \in getPrepareCandidates(x[1], x[2]) :
            /\ CompatibleHigh(x[1], x[2], newH)
            /\ LET u == confirmPreparedUpdated(
                            x[1], LowestOfRun(x[1], x[2], newH), newH)
               IN  u.c.set /\ compareBallots(u.c, u.h) < 0

\* the boundaries b with pred([b, b])
Anchors(boundaries, pred) == {b \in boundaries : << b, b >> \in pred}

\* the boundaries lo such that pred([x, hi]) for every boundary x of lo..hi
Extensions(boundaries, pred, hi) ==
    {lo \in boundaries :
        /\ lo <= hi
        /\ \A x \in boundaries : (lo <= x /\ x <= hi) => << x, hi >> \in pred}

\* the smallest of a non-empty set of numbers
MinNat(S) == CHOOSE x \in S : \A y \in S : x <= y

\* the commit boundaries of the latest envelopes of the local node, for
\* each value
LocalBoundaries ==
    {getCommitBoundariesFromStatements(Local, SCPBallot(1, v)) : v \in Values}

\* C33: for boundaries B and predicate P the interval search returns
\* [lo, hi] with hi the largest boundary b with P([b, b]) and lo the smallest
\* boundary with P([x, hi]) for every boundary x of lo..hi, and it reports
\* no interval (a result whose first is 0) only when no boundary b has
\* P([b, b]), 0 being a boundary or not
IntervalSearchFindsWidest ==
    \A boundaries \in LocalBoundaries :
        \A pred \in SUBSET Intervals(boundaries) :
            IF Anchors(boundaries, pred) = {}
            THEN findExtendedInterval(boundaries, pred)[1] = 0
            ELSE /\ findExtendedInterval(boundaries, pred)[1] # 0
                 /\ findExtendedInterval(boundaries, pred) =
                      << MinNat(Extensions(boundaries, pred,
                                    MaxNat(Anchors(boundaries, pred)))),
                         MaxNat(Anchors(boundaries, pred)) >>

\* the peer's envelope st is recorded, attemptConfirmPrepared has returned
\* and advanceSlot is about to call attemptAcceptCommit
BeforeAcceptCommit(st) ==
    attemptConfirmPrepared(BeforeConfirmPrepared(st), st)

\* the deliveries of Spec that reach attemptAcceptCommit, each with the
\* state on which it is called
AcceptCommitCalls ==
    {<< BeforeAcceptCommit(st), st >> :
        st \in {x \in AdvancingDeliveries : BeforeAcceptCommit(x).err = 0}}

\* the ballot attemptAcceptCommit and attemptConfirmCommit extract from hint
HintBallot(hint) == SCPBallot(hint.nH, hint.ballot.value)

\* the intervals over the boundaries for which commit is accepted
AcceptedCommit(s, hint) ==
    {cur \in Intervals(getCommitBoundariesFromStatements(s, HintBallot(hint))) :
        federatedAccept(s,
            {n \in Senders(s) : votesCommit(HintBallot(hint), cur, s.M[n])},
            {n \in Senders(s) :
                commitPredicate(HintBallot(hint), cur, s.M[n])})}

\* the interval attemptAcceptCommit finds, << 0, 0 >> if none
AcceptedInterval(s, hint) ==
    IF hint.type = SCP_ST_PREPARE /\ hint.nC = 0 THEN << 0, 0 >>
    ELSE findExtendedInterval(
             getCommitBoundariesFromStatements(s, HintBallot(hint)),
             AcceptedCommit(s, hint))

\* setAcceptCommit up to its call of emitCurrentStateStatement
acceptCommitUpdated(s, c, h) ==
    updateCurrentIfNeeded(
        enterConfirm(storeCommit(s, c, h, commitChanged(s, c, h)), h), h)

\* attemptAcceptCommit(s, hint) accepts the interval: the phase is PREPARE,
\* or it is CONFIRM, the hint is compatible with h and hi is above h
AcceptsInterval(s, hint) ==
    /\ AcceptedInterval(s, hint)[1] # 0
    /\ \/ s.phase = SCP_PHASE_PREPARE
       \/ /\ s.phase = SCP_PHASE_CONFIRM
          /\ areBallotsCompatible(HintBallot(hint), s.h)
          /\ AcceptedInterval(s, hint)[2] > s.h.counter

BeforeConfirmCommit(st) == attemptAcceptCommit(BeforeAcceptCommit(st), st)

\* the deliveries of Spec that reach attemptConfirmCommit, each with the
\* state on which it is called
ConfirmCommitCalls ==
    {<< BeforeConfirmCommit(st), st >> :
        st \in {x \in AdvancingDeliveries : BeforeConfirmCommit(x).err = 0}}

\* the intervals over the boundaries for which a quorum ratifies commit
RatifiedCommit(s, hint) ==
    {cur \in Intervals(getCommitBoundariesFromStatements(s, HintBallot(hint))) :
        federatedRatify(s,
            {n \in Senders(s) :
                commitPredicate(HintBallot(hint), cur, s.M[n])})}

\* the interval attemptConfirmCommit finds
RatifiedInterval(s, hint) ==
    findExtendedInterval(
        getCommitBoundariesFromStatements(s, HintBallot(hint)),
        RatifiedCommit(s, hint))

\* attemptConfirmCommit(s, hint) acts: phase CONFIRM with h and c set, a
\* CONFIRM or EXTERNALIZE hint compatible with c, and a ratified interval
ConfirmsInterval(s, hint) ==
    /\ s.phase = SCP_PHASE_CONFIRM /\ s.h.set /\ s.c.set
    /\ hint.type # SCP_ST_PREPARE
    /\ areBallotsCompatible(HintBallot(hint), s.c)
    /\ RatifiedInterval(s, hint)[1] # 0

\* C35: attemptConfirmCommit acts only in phase CONFIRM and for a hint
\* compatible with c; when a quorum ratifies commit over [lo, hi] it sets
\* c = (lo, v) and h = (hi, v), moves to EXTERNALIZE and calls
\* valueExternalized; valueExternalized is called at most once for the
\* slot, and exactly once when the phase is EXTERNALIZE
ConfirmCommitExternalizesOnce ==
    /\ Local.ext <= 1
    /\ Local.err = 0 => (Local.ext = 1 <=> Local.phase = SCP_PHASE_EXTERNALIZE)
    /\ \A x \in ConfirmCommitCalls :
          LET s == x[1]
              v == x[2].ballot.value
              r == attemptConfirmCommit(s, x[2])
          IN  IF ConfirmsInterval(s, x[2])
              THEN /\ r.res /\ r.err = 0
                   /\ r.c = SCPBallot(RatifiedInterval(s, x[2])[1], v)
                   /\ r.h = SCPBallot(RatifiedInterval(s, x[2])[2], v)
                   /\ r.phase = SCP_PHASE_EXTERNALIZE
                   /\ r.ext = s.ext + 1
                   /\ r.p = s.p /\ r.pp = s.pp
              ELSE r = [s EXCEPT !.res = FALSE]

\* the commit is confirmed by the outermost advanceSlot for an interval
\* other than the node's own [c, h]
ConfirmCommitWitness ==
    \E x \in ConfirmCommitCalls :
        /\ ConfirmsInterval(x[1], x[2])
        /\ << x[1].c.counter, x[1].h.counter >> # RatifiedInterval(x[1], x[2])
        /\ attemptConfirmCommit(x[1], x[2]).ext = 1

\* the counters the bump rule looks at
BumpRuleCounters == 0..MaxCounter

\* the senders whose latest statement has a working ballot above counter n
WorkingBallotAhead(s, n) ==
    {m \in Senders(s) : getWorkingBallot(s.M[m]).counter > n}

\* the senders whose latest statement is an EXTERNALIZE, or a PREPARE or
\* CONFIRM with a ballot above counter n
StatementBallotAhead(s, n) ==
    {m \in Senders(s) :
        \/ s.M[m].type = SCP_ST_EXTERNALIZE
        \/ s.M[m].ballot.counter > n}

\* C36 as stated: a v-blocking set is strictly ahead of n exactly when the
\* counters of its members' working ballots (PREPARE: b.counter, CONFIRM:
\* nCommit, EXTERNALIZE: commit.counter) all exceed n
AheadByWorkingBallot ==
    \A n \in BumpRuleCounters :
        hasVBlockingSubsetStrictlyAheadOf(Local, n)
            <=> isVBlocking(Local, WorkingBallotAhead(Local, n))

\* C36: the counter of a sender's latest statement is b.counter for PREPARE
\* and for CONFIRM and UINT32_MAX for EXTERNALIZE, and a v-blocking set is
\* strictly ahead of n exactly when those counters all exceed n
AheadByStatementBallot ==
    /\ \A m \in Senders(Local) :
          statementBallotCounter(Local.M[m])
             = (IF Local.M[m].type = SCP_ST_EXTERNALIZE THEN UINT32_MAX
                ELSE Local.M[m].ballot.counter)
    /\ \A n \in BumpRuleCounters :
          hasVBlockingSubsetStrictlyAheadOf(Local, n)
              <=> isVBlocking(Local, StatementBallotAhead(Local, n))

\* the peer's latest statement is a CONFIRM whose ballot is ahead of a
\* counter that its nCommit is not ahead of, and the peer is v-blocking
AheadInConfirmWitness ==
    /\ Local.M[1].type = SCP_ST_CONFIRM
    /\ \E n \in BumpRuleCounters :
          /\ Local.M[1].nC <= n
          /\ hasVBlockingSubsetStrictlyAheadOf(Local, n)
          /\ ~isVBlocking(Local, WorkingBallotAhead(Local, n))

\* r, the outcome of a top-level call, has a latest own statement that
\* differs from the one before the call
OwnStatementChanged(r) ==
    /\ r.err = 0
    /\ r.M[LocalNodeID] # Local.M[LocalNodeID]

NetCalls(n) ==
    {processEnvelope(enter(node[n]), st, FALSE) :
        st \in {x \in net : x.node # n}}
    \cup {bumpState([enter(node[n]) EXCEPT !.cc = v], v, FALSE) :
            v \in {x \in Values : node[n].phase # SCP_PHASE_EXTERNALIZE}}
    \cup {ballotProtocolTimerExpired(stopBallotProtocolTimer(enter(s))) :
            s \in {x \in {node[n]} : x.timer}}

\* the envelopes node n has handed to emitEnvelope so far
Emitted(n) == {e \in net : e.node = n}

\* C38: every envelope a node hands to emitEnvelope is strictly newer, in
\* the order of isNewerStatement, than every envelope it handed over before
EmittedStrictlyNewer ==
    \A n \in NetNodes :
        /\ \A old \in Emitted(n) :
              old # node[n].lastEmit
                 => isNewerStatement(old, node[n].lastEmit)
        /\ node[n].err = 0 =>
              \A r \in NetCalls(n) :
                  \A i \in 1..Len(r.out) :
                      /\ r.out[i].node = n
                      /\ \A old \in Emitted(n) :
                            isNewerStatement(old, r.out[i])

\* a node has handed over three envelopes and is about to hand over a fourth
EmittedSeveralWitness ==
    \E n \in NetNodes :
        /\ Cardinality(Emitted(n)) >= 3
        /\ node[n].err = 0
        /\ \E r \in NetCalls(n) : r.out # << >>

\* C39: in phase CONFIRM and in phase EXTERNALIZE p' is unset
PreparedPrimeUnsetAfterPrepare ==
    Local.phase \in {SCP_PHASE_CONFIRM, SCP_PHASE_EXTERNALIZE}
        => ~Local.pp.set

\* the node holds a p' in phase PREPARE, an envelope takes it to phase
\* CONFIRM, and a further envelope raises p there
PrimeClearedThenPreparedRaisedWitness ==
    /\ Local.phase = SCP_PHASE_PREPARE
    /\ Local.pp.set
    /\ \E st1 \in Deliveries :
          LET r1 == leave(Delivered(st1))
          IN  /\ r1.err = 0
              /\ r1.phase = SCP_PHASE_CONFIRM
              /\ ~r1.pp.set
              /\ \E st2 \in Deliveries :
                    LET r2 == processEnvelope(enter(r1), st2, FALSE)
                    IN  /\ r2.err = 0
                        /\ r2.phase = SCP_PHASE_CONFIRM
                        /\ compareBallots(r2.p, r1.p) > 0
                        /\ ~r2.pp.set

\* the ballots among p, p', h and c that the node holds
AdoptedBallots ==
    {x \in {Local.p, Local.pp, Local.h, Local.c} : x.set}

\* C40: each of p, p', h and c that is set has a counter of at least 1
AdoptedCountersPositive == \A x \in AdoptedBallots : x.counter >= 1

\* the part of C40 that holds: c, when set, has a counter of at least 1
CommitCounterPositive == Local.c.set => Local.c.counter >= 1

====
